---- MODULE Spec2Model ----
(***************************************************************************)
(* primesieve core: PreSieve (src/src/PreSieve.cpp) and EratSmall          *)
(* (src/src/EratSmall.cpp), modelled as one state machine.                 *)
(*                                                                         *)
(* A sieve array is a sequence of bytes (integers 0..255), held in chunks  *)
(* of ChunkLen bytes; array indices are 0-based as in the C++ code and     *)
(* pointers into an array are modelled by their index.  uint64_t values    *)
(* whose width matters are held as four 16-bit limbs (least significant    *)
(* first), so that arithmetic wraps modulo 2^64 as it does in the code.    *)
(***************************************************************************)
EXTENDS Integers, Sequences, FiniteSets, TLC

VARIABLES
  enabled_,      \* EratSmall::enabled_
  maxPrime_,     \* EratSmall::maxPrime_ (uint64_t, limbs)
  l1CacheSize_,  \* EratSmall::l1CacheSize_ (uint64_t, limbs)
  primes_,       \* EratSmall::primes_ : sequence of SievingPrime records
  buffers_,      \* PreSieve::buffers_ : the size of each of the eight buffers
  totalDist_,    \* PreSieve::totalDist_ (uint64_t, limbs)
  preMaxPrime_,  \* PreSieve::maxPrime_
  sieve,         \* the driver's sieve array of the current segment
  segmentLow,    \* the driver's segmentLow of the current segment
  segments,      \* the number of segments the driver has begun
  inits,         \* the number of PreSieve::init calls made
  pc,            \* the driver's position in its per-segment sequence
  last           \* the last call made, its arguments and how it ended

vars == <<enabled_, maxPrime_, l1CacheSize_, primes_, buffers_, totalDist_,
          preMaxPrime_, sieve, segmentLow, segments, inits, pc, last>>

eratVars == <<enabled_, maxPrime_, l1CacheSize_, primes_>>
preVars == <<buffers_, totalDist_, preMaxPrime_>>

Min(a, b) == IF a <= b THEN a ELSE b
Max(a, b) == IF a >= b THEN a ELSE b

\* The element of a one-element set.  { e(x) : x \in {v} } computes v once
\* and then e on it, as a statement that uses the value of an earlier one.
Only(S) == CHOOSE x \in S : TRUE

(***************************************************************************)
(* uint64_t arithmetic on limbs.                                           *)
(***************************************************************************)
LimbBase == 2^16

\* The uint64_t of a natural number below 2^31.
U64(n) == <<n % LimbBase, n \div LimbBase, 0, 0>>

\* A uint64_t that the model can hold as a TLA+ integer (below 2^30).
U64Fits(x) == x[3] = 0 /\ x[4] = 0 /\ x[2] < 2^14

U64ToNat(x) == x[1] + LimbBase * x[2]

U64Lt(x, y) ==
  \E i \in 1..4 : x[i] < y[i] /\ \A j \in (i + 1)..4 : x[j] = y[j]

\* x + y modulo 2^64.
U64Add(x, y) ==
  LET s1 == x[1] + y[1]
      s2 == x[2] + y[2] + (s1 \div LimbBase)
      s3 == x[3] + y[3] + (s2 \div LimbBase)
      s4 == x[4] + y[4] + (s3 \div LimbBase)
  IN <<s1 % LimbBase, s2 % LimbBase, s3 % LimbBase, s4 % LimbBase>>

\* x * k modulo 2^64, for a small k.
U64MulSmall(x, k) ==
  LET s1 == x[1] * k
      s2 == x[2] * k + (s1 \div LimbBase)
      s3 == x[3] * k + (s2 \div LimbBase)
      s4 == x[4] * k + (s3 \div LimbBase)
  IN <<s1 % LimbBase, s2 % LimbBase, s3 % LimbBase, s4 % LimbBase>>

U64Min(x, y) == IF U64Lt(y, x) THEN y ELSE x

(***************************************************************************)
(* Bytes and byte arrays.                                                  *)
(***************************************************************************)
BitSet(b, k) == (b \div (2^k)) % 2 = 1

\* b &= BITk, where BITk is the complement of 1 << k.
ClearBit(b, k) == IF BitSet(b, k) THEN b - 2^k ELSE b

\* a & b on bytes.
RECURSIVE ByteAnd(_, _)
ByteAnd(a, b) ==
  IF a = 0 \/ b = 0 THEN 0
  ELSE IF a = 255 THEN b
  ELSE IF b = 255 THEN a
  ELSE (a % 2) * (b % 2) + 2 * ByteAnd(a \div 2, b \div 2)

\* A variant of ByteXor that drops its second operand.
ByteXorLeft(a, b) == a

\* a ^ b on bytes.
RECURSIVE ByteXor(_, _)
ByteXor(a, b) ==
  IF a = 0 THEN b ELSE IF b = 0 THEN a
  ELSE ((a + b) % 2) + 2 * ByteXor(a \div 2, b \div 2)

ChunkLen == 2^8

ArrLen(a) == IF Len(a) = 0 THEN 0 ELSE (Len(a) - 1) * ChunkLen + Len(a[Len(a)])

ByteAt(a, i) == a[(i \div ChunkLen) + 1][(i % ChunkLen) + 1]

SetByte(a, i, v) == [a EXCEPT ![(i \div ChunkLen) + 1][(i % ChunkLen) + 1] = v]

\* A variant of AndBit that assigns the mask: a[i] = BITk
AndBitAssign(a, i, k) == SetByte(a, i, 255 - 2^k)

\* a[i] &= BITk
AndBit(a, i, k) ==
  [a EXCEPT ![(i \div ChunkLen) + 1][(i % ChunkLen) + 1] = ClearBit(@, k)]

RECURSIVE Repeat(_, _)
Repeat(v, n) ==
  IF n = 0 THEN <<>>
  ELSE LET h == Repeat(v, n \div 2)
       IN IF n % 2 = 0 THEN h \o h ELSE Append(h \o h, v)

\* An array of n bytes, each v.
ArrayOf(n, v) ==
  LET full == n \div ChunkLen
      rest == n % ChunkLen
  IN Repeat(Repeat(v, ChunkLen), full)
       \o (IF rest = 0 THEN <<>> ELSE <<Repeat(v, rest)>>)

\* An array of n bytes, each 0xff.
FilledArray(n) == ArrayOf(n, 255)

(***************************************************************************)
(* The bit layout the code uses: bit k of byte b of a sieve array whose    *)
(* segment starts at low designates the integer low + 30 * b + BitValue[k].*)
(* PreSieve.cpp names its bits by it: bit49 = 1 << 4 in the byte of 30,    *)
(* bit77 = 1 << 3 and bit91 = 1 << 7 in the byte of 60, bit119 = 1 << 6    *)
(* and bit121 = 1 << 7 in the byte of 90.                                  *)
(***************************************************************************)
BitValue == <<7, 11, 13, 17, 19, 23, 29, 31>>

\* The integer that bit k of byte b designates in a segment starting at low.
IntegerOf(low, b, k) == low + 30 * b + BitValue[k + 1]

(***************************************************************************)
(* EratSmall: the strike tables of the inner crossOff.                     *)
(* Entry 8 * c + j (1-based: + 1) belongs to case label 8 * c + j, i.e. to *)
(* class c (the residue of the prime modulo 30) and phase j.               *)
(***************************************************************************)
\* A variant of StrikeBit in which every strike clears bit 0.
StrikeBitZero == [w \in 1..64 |-> 0]

StrikeBit ==
  <<0,  4,  3,  7,  6,  2,  1,  5,
    1,  3,  7,  5,  0,  6,  2,  4,
    2,  7,  5,  4,  1,  0,  6,  3,
    3,  6,  0,  1,  4,  5,  7,  2,
    4,  2,  6,  0,  5,  7,  3,  1,
    5,  1,  2,  6,  7,  3,  4,  0,
    6,  5,  4,  3,  2,  1,  0,  7,
    7,  0,  1,  2,  3,  4,  5,  6>>

StepMul ==
  <<6,  4,  2,  4,  2,  4,  6,  2,
    6,  4,  2,  4,  2,  4,  6,  2,
    6,  4,  2,  4,  2,  4,  6,  2,
    6,  4,  2,  4,  2,  4,  6,  2,
    6,  4,  2,  4,  2,  4,  6,  2,
    6,  4,  2,  4,  2,  4,  6,  2,
    6,  4,  2,  4,  2,  4,  6,  2,
    6,  4,  2,  4,  2,  4,  6,  2>>

StepAdd ==
  <<1,  1,  0,  1,  1,  1,  1,  1,
    2,  1,  1,  2,  0,  2,  2,  1,
    2,  2,  1,  2,  1,  1,  3,  1,
    3,  3,  1,  2,  1,  2,  4,  1,
    4,  2,  2,  2,  1,  3,  4,  1,
    5,  3,  1,  3,  2,  3,  5,  1,
    6,  4,  2,  4,  2,  4,  5,  2,
    1,  0,  0,  0,  0,  0,  0,  0>>

UnrollMul ==
  <<0,  6, 10, 12, 16, 18, 22, 28,
    0,  6, 10, 12, 16, 18, 22, 28,
    0,  6, 10, 12, 16, 18, 22, 28,
    0,  6, 10, 12, 16, 18, 22, 28,
    0,  6, 10, 12, 16, 18, 22, 28,
    0,  6, 10, 12, 16, 18, 22, 28,
    0,  6, 10, 12, 16, 18, 22, 28,
    0,  6, 10, 12, 16, 18, 22, 28>>

UnrollAdd ==
  <<0,  1,  2,  2,  3,  4,  5,  6,
    0,  2,  3,  4,  6,  6,  8, 10,
    0,  2,  4,  5,  7,  8,  9, 12,
    0,  3,  6,  7,  9, 10, 12, 16,
    0,  4,  6,  8, 10, 11, 14, 18,
    0,  5,  8,  9, 12, 14, 17, 22,
    0,  6, 10, 12, 16, 18, 22, 27,
    0,  1,  1,  1,  1,  1,  1,  1>>

UnrollBit ==
  <<0,  4,  3,  7,  6,  2,  1,  5,
    1,  3,  7,  5,  0,  6,  2,  4,
    2,  7,  5,  4,  1,  0,  6,  3,
    3,  6,  0,  1,  4,  5,  7,  2,
    4,  2,  6,  0,  5,  7,  3,  1,
    5,  1,  2,  6,  7,  3,  4,  0,
    6,  5,  4,  3,  2,  1,  0,  7,
    7,  0,  1,  2,  3,  4,  5,  6>>

RevolutionAdd == <<7, 11, 13, 17, 19, 23, 29, 1>>

\* A variant of SievingPrime that does not keep multipleIndex.
SievingPrimeLost(sp, mi, wi) ==
  [sievingPrime |-> sp, multipleIndex |-> 0, wheelIndex |-> wi]

\* The record of one sieving prime (SievingPrime).
SievingPrime(sp, mi, wi) ==
  [sievingPrime |-> sp, multipleIndex |-> mi, wheelIndex |-> wi]

\* The prime a record stands for: 30 * sievingPrime + the residue of its class.
PrimeOf(rec) == 30 * rec.sievingPrime + RevolutionAdd[(rec.wheelIndex \div 8) + 1]

\* A variant of NextLabel that falls through from phase 7 into the next class.
NextLabelFallThrough(w) == (w + 1) % 64

\* A variant of NextLabel that skips a phase.
NextLabelSkip(w) == 8 * (w \div 8) + ((w + 2) % 8)

\* The case label reached by falling through from label w: the next phase
\* of the same class, the for (;;) leading from phase 7 back to phase 0.
NextLabel(w) == 8 * (w \div 8) + ((w + 1) % 8)

\* A variant of UnrolledStrike without the byte adjustment d.
UnrolledStrikeNoAdjust(a, p, sp, c, j) ==
  AndBit(a, p + sp * UnrollMul[8 * c + j + 1], UnrollBit[8 * c + j + 1])

\* One statement p[sievingPrime * m + d] &= BITk of the unrolled body.
UnrolledStrike(a, p, sp, c, j) ==
  AndBit(a, p + sp * UnrollMul[8 * c + j + 1] + UnrollAdd[8 * c + j + 1],
         UnrollBit[8 * c + j + 1])

\* The body of the for (; p < loopEnd; ...) loop: the next 8 multiples.
UnrolledBody(a, p, sp, c) ==
  UnrolledStrike(UnrolledStrike(UnrolledStrike(UnrolledStrike(
  UnrolledStrike(UnrolledStrike(UnrolledStrike(UnrolledStrike(
    a, p, sp, c, 0), p, sp, c, 1), p, sp, c, 2), p, sp, c, 3),
       p, sp, c, 4), p, sp, c, 5), p, sp, c, 6), p, sp, c, 7)

\* A variant of Revolution that advances as if every class had residue 1.
RevolutionShort(sp, c) == sp * 30 + 1

\* The distance p advances per iteration of the unrolled loop.
Revolution(sp, c) == sp * 30 + RevolutionAdd[c + 1]

\* How often the loop for (; p < loopEnd; p += Revolution) runs.
UnrolledCount(p, loopEnd, sp, c) ==
  IF p < loopEnd THEN ((loopEnd - p - 1) \div Revolution(sp, c)) + 1 ELSE 0

\* Iterations lo .. hi - 1 of the unrolled loop that starts at p, in order
\* (the first half is evaluated before the second is begun).
RECURSIVE UnrolledLoop(_, _, _, _, _, _)
UnrolledLoop(a, p, sp, c, lo, hi) ==
  IF hi <= lo THEN a
  ELSE IF hi = lo + 1 THEN UnrolledBody(a, p + lo * Revolution(sp, c), sp, c)
  ELSE LET mid == (lo + hi) \div 2
           first == UnrolledLoop(a, p, sp, c, lo, mid)
       IN IF Len(first) >= 0 THEN UnrolledLoop(first, p, sp, c, mid, hi)
          ELSE first

\* The switch of crossOff for one prime, entered at case label w with the
\* pointer at p: the unrolled loop at phase 0, then CHECK_FINISHED and one
\* strike per label until p reaches sieveEnd.
RECURSIVE Strikes(_, _, _, _, _, _)
Strikes(a, sieveEnd, loopEnd, sp, w, p) ==
  IF w % 8 = 0 /\ p < loopEnd
  THEN LET n == UnrolledCount(p, loopEnd, sp, w \div 8)
           done == UnrolledLoop(a, p, sp, w \div 8, 0, n)
       IN IF Len(done) >= 0
          THEN Strikes(done, sieveEnd, loopEnd, sp, w,
                       p + n * Revolution(sp, w \div 8))
          ELSE done
  ELSE IF p >= sieveEnd
  THEN [sieve |-> a, multipleIndex |-> p - sieveEnd, wheelIndex |-> w]
  ELSE Strikes(AndBit(a, p, StrikeBit[w + 1]), sieveEnd, loopEnd, sp,
               NextLabel(w), p + sp * StepMul[w + 1] + StepAdd[w + 1])

\* uint64_t maxLoopDist = sievingPrime * 28 + 27;
MaxLoopDist(sp) == sp * 28 + 27

\* A variant of LoopEnd without std::max.
LoopEndUnclamped(sieveBegin, sieveEnd, maxLoopDist) == sieveEnd - maxLoopDist

\* uint8_t* loopEnd = std::max(sieveEnd, sieve + maxLoopDist) - maxLoopDist;
LoopEnd(sieveBegin, sieveEnd, maxLoopDist) ==
  Max(sieveEnd, sieveBegin + maxLoopDist) - maxLoopDist

\* The indices of the bytes that the switch of crossOff reads and writes for
\* one prime, entered at case label w with the pointer at p: those of the
\* unrolled loop at phase 0 and those of the single strikes.
RECURSIVE StrikeAccesses(_, _, _, _, _)
StrikeAccesses(sieveEnd, loopEnd, sp, w, p) ==
  IF w % 8 = 0 /\ p < loopEnd
  THEN LET n == UnrolledCount(p, loopEnd, sp, w \div 8)
       IN {p + it * Revolution(sp, w \div 8)
             + sp * UnrollMul[w + j + 1] + UnrollAdd[w + j + 1] :
             it \in 0..(n - 1), j \in 0..7}
            \cup StrikeAccesses(sieveEnd, loopEnd, sp, w,
                                p + n * Revolution(sp, w \div 8))
  ELSE IF p >= sieveEnd THEN {}
  ELSE {p} \cup StrikeAccesses(sieveEnd, loopEnd, sp, NextLabel(w),
                               p + sp * StepMul[w + 1] + StepAdd[w + 1])

\* The indices of the bytes that the body of for (auto& prime : primes_)
\* reads and writes for one record, on [sieve, sieveEnd).
AccessesOf(sieveBegin, sieveEnd, rec) ==
  StrikeAccesses(sieveEnd,
                 LoopEnd(sieveBegin, sieveEnd, MaxLoopDist(rec.sievingPrime)),
                 rec.sievingPrime, rec.wheelIndex % 64,
                 sieveBegin + rec.multipleIndex)

\* The body of for (auto& prime : primes_) for one record, on [sieve, sieveEnd).
CrossOffPrime(a, sieveBegin, sieveEnd, rec) ==
  LET maxLoopDist == MaxLoopDist(rec.sievingPrime)
      loopEnd == LoopEnd(sieveBegin, sieveEnd, maxLoopDist)
  IN Strikes(a, sieveEnd, loopEnd, rec.sievingPrime, rec.wheelIndex % 64,
             sieveBegin + rec.multipleIndex)

\* crossOff(uint8_t* sieve, uint8_t* sieveEnd), from record i on.
RECURSIVE CrossOffFrom(_, _, _, _, _)
CrossOffFrom(prs, a, sieveBegin, sieveEnd, i) ==
  IF i > Len(prs) THEN [primes |-> prs, sieve |-> a]
  ELSE LET r == CrossOffPrime(a, sieveBegin, sieveEnd, prs[i])
       IN CrossOffFrom(
            [prs EXCEPT ![i] = SievingPrime(@.sievingPrime, r.multipleIndex,
                                            r.wheelIndex)],
            r.sieve, sieveBegin, sieveEnd, i + 1)

\* crossOff(uint8_t* sieve, uint8_t* sieveEnd)
CrossOffInner(prs, a, sieveBegin, sieveEnd) ==
  CrossOffFrom(prs, a, sieveBegin, sieveEnd, 1)

\* The loop of crossOff(uint8_t* sieve, uint64_t sieveSize), from i on (a
\* block is crossed off before the next is begun).
RECURSIVE CrossOffBlocks(_, _, _, _, _)
CrossOffBlocks(prs, a, sieveSize, l1CacheSize, i) ==
  IF ~U64Lt(i, U64(sieveSize)) THEN [primes |-> prs, sieve |-> a]
  ELSE LET end == U64ToNat(U64Min(U64Add(i, l1CacheSize), U64(sieveSize)))
           r == CrossOffInner(prs, a, U64ToNat(i), end)
       IN IF Len(r.sieve) >= 0 /\ Len(r.primes) >= 0
          THEN CrossOffBlocks(r.primes, r.sieve, sieveSize, l1CacheSize,
                              U64Add(i, l1CacheSize))
          ELSE r

\* Whether the loop of crossOff(sieve, sieveSize) ends: with l1CacheSize_ = 0
\* the step i += l1CacheSize_ leaves i < sieveSize for ever.
CrossOffEnds(sieveSize, l1CacheSize) ==
  sieveSize = 0 \/ l1CacheSize # U64(0)

\* crossOff(uint8_t* sieve, uint64_t sieveSize)
CrossOffOuter(prs, a, sieveSize, l1CacheSize) ==
  CrossOffBlocks(prs, a, sieveSize, l1CacheSize, U64(0))

(***************************************************************************)
(* Wheel::addSievingPrime (not among the sources): the contract of the     *)
(* specification, read in the bit layout of the strike tables.  The        *)
(* returned (multipleIndex, wheelIndex) designate the least multiple of    *)
(* the prime, coprime to 30, that a byte of the segment can designate: the *)
(* byte multipleIndex and the bit that the strike at wheelIndex clears.    *)
(***************************************************************************)
CoprimeTo30(n) == n % 2 # 0 /\ n % 3 # 0 /\ n % 5 # 0

FirstMultiple(prime, low) ==
  LET kmin == Max(1, ((low + BitValue[1] + prime - 1) \div prime))
      k == CHOOSE k \in kmin..(kmin + 6) :
             /\ CoprimeTo30(prime * k)
             /\ \A h \in kmin..(k - 1) : ~CoprimeTo30(prime * h)
  IN prime * k

WheelInit(prime, low) ==
  LET m == FirstMultiple(prime, low)
      c == CHOOSE c \in 0..7 : RevolutionAdd[c + 1] = prime % 30
      w == CHOOSE w \in (8 * c)..(8 * c + 7) :
             (m - BitValue[StrikeBit[w + 1] + 1]) % 30 = 0
  IN [multipleIndex |-> (m - low - BitValue[StrikeBit[w + 1] + 1]) \div 30,
      wheelIndex |-> w]

\* EratSmall::storeSievingPrime
StoreSievingPrime(prs, prime, multipleIndex, wheelIndex) ==
  Append(prs, SievingPrime(prime \div 30, multipleIndex, wheelIndex))

\* Wheel::addSievingPrime(prime, segmentLow)
AddedSievingPrime(prs, prime, low) ==
  LET w == WheelInit(prime, low)
  IN StoreSievingPrime(prs, prime, w.multipleIndex, w.wheelIndex)

(***************************************************************************)
(* PreSieve: the static lookup table, the primes of the eight buffers.     *)
(***************************************************************************)
buffer_7_11_13 ==
  <<248, 239, 119, 63, 219, 237, 158, 252, 234, 55, 175, 249, 245, 211, 126, 79, 119, 158, 235, 249,
    221, 238, 173, 119, 183, 115, 217, 223, 62, 239, 83, 175, 235, 253, 222, 182, 111, 87, 183, 186,
    253, 91, 254, 207, 101, 191, 241, 124, 159, 254, 174, 119, 187, 251, 109, 221, 222, 231, 119, 157,
    250, 188, 223, 250, 231, 99, 189, 123, 245, 95, 206, 239, 52, 190, 187, 253, 207, 244, 235, 119,
    63, 219, 221, 142, 254, 233, 118, 175, 249, 253, 215, 122, 207, 119, 190, 219, 233, 223, 236, 236,
    55, 183, 123, 213, 219, 190, 111, 115, 159, 235, 253, 221, 246, 47, 87, 191, 178, 249, 219, 126,
    239, 85, 175, 243, 125, 222, 190, 174, 119, 179, 251, 237, 93, 254, 199, 103, 159, 249, 188, 159,
    250, 239, 103, 185, 251, 117, 95, 222, 239, 54, 189, 250, 189, 207, 252, 231, 115, 63, 91, 253,
    158, 238, 235, 117, 174, 185, 253, 215, 118, 203, 119, 62, 251, 217, 207, 238, 237, 118, 183, 123,
    221, 215, 186, 239, 115, 191, 203, 237, 223, 244, 110, 23, 191, 186, 245, 219, 254, 111, 117, 159,
    227, 125, 221, 254, 174, 119, 187, 243, 233, 221, 126, 231, 87, 143, 251, 188, 222, 186, 239, 103,
    181, 251, 245, 95, 222, 207, 38, 191, 249, 252, 143, 252, 239, 119, 59, 219, 125, 158, 222, 235,
    119, 173, 248, 189, 215, 126, 199, 115, 190, 123, 249, 223, 238, 237, 117, 182, 59, 221, 223, 182,
    235, 115, 63, 235, 221, 207, 246, 109, 86, 191, 186, 253, 211, 250, 239, 117, 191, 211, 109, 223,
    252, 174, 55, 187, 251, 229, 217, 254, 103, 119, 159, 235, 188, 221, 250, 175, 103, 189, 243, 241,
    95, 94, 239, 22, 175, 251, 253, 206, 188, 239, 119, 55, 219, 253, 30, 254, 203, 103, 175, 249,
    252, 151, 126, 207, 119, 186, 251, 121, 223, 206, 237, 119, 181, 122, 157, 223, 190, 231, 115, 191,
    107, 253, 223, 230, 111, 85, 190, 186, 253, 219, 246, 235, 117, 63, 243, 93, 207, 254, 172, 118,
    187, 251, 237, 213, 250, 231, 119, 159, 219, 172, 223, 248, 238, 39, 189, 251, 245, 91, 222, 111,
    54, 159, 235, 253, 205, 252, 175, 119, 63, 211, 249, 158, 126, 235, 87, 175, 249, 253, 214, 62,
    207, 119, 182, 251, 249, 95, 238, 205, 103, 183, 121, 220, 159, 190, 239, 115, 187, 235, 125, 223,
    214, 111, 87, 189, 186, 189, 219, 254, 231, 113, 191, 115, 125, 223, 238, 174, 117, 186, 187, 237,
    221, 246, 227, 119, 31, 251, 156, 207, 250, 237, 102, 189, 251, 245, 87, 218, 239, 54, 191, 219,
    237, 207, 252, 238, 55, 63, 219, 245, 154, 254, 107, 119, 143, 233, 253, 213, 126, 143, 119, 190,
    243, 249, 223, 110, 237, 87, 167, 123, 221, 222, 190, 239, 115, 183, 235, 253, 95, 246, 79, 71,
    191, 184, 252, 155, 254, 239, 117, 187, 243, 125, 223, 222, 174, 119, 185, 250, 173, 221, 254, 231,
    115, 159, 123, 188, 223, 234, 239, 101, 188, 187, 245, 95, 214, 235, 54, 63, 251, 221, 207, 252,
    237, 118, 63, 219, 253, 150, 250, 235, 119, 175, 217, 237, 215, 124, 206, 55, 190, 251, 241, 219,
    238, 109, 119, 151, 107, 221, 221, 190, 175, 115, 191, 227, 249, 223, 118, 111, 87, 175, 186, 253,
    218, 190, 239, 117, 183, 243, 125, 95, 254, 142, 103, 187, 249, 236, 157, 254, 231, 119, 155, 251,
    60, 223, 218, 239, 103, 189, 250, 181, 95, 222, 231, 50, 191, 123, 253, 207, 236, 239, 117, 62,
    155, 253, 158, 246, 235, 119, 47, 249, 221, 199, 126, 205, 118, 190, 251, 249, 215, 234, 237, 119,
    183, 91, 205, 223, 188, 238, 51, 191, 235, 245, 219, 246, 111, 87, 159, 170, 253, 217, 254, 175,
    117, 191, 243, 121, 223, 126, 174, 87, 171, 251, 237, 220, 190, 231, 119, 151, 251, 188, 95, 250,
    207, 103, 189, 249, 244, 31, 222, 239, 54, 187, 251, 125, 207, 220, 239, 119, 61, 218, 189, 158,
    254, 227, 115, 175, 121, 253, 215, 110, 207, 117, 190, 187, 249, 223, 230, 233, 119, 55, 123, 221,
    207, 190, 237, 114, 191, 235, 253, 215, 242, 111, 87, 191, 154, 237, 219, 252, 238, 53, 191, 243,
    117, 219, 254, 46, 119, 155, 235, 237, 221, 254, 167, 119, 159, 243, 184, 223, 122, 239, 71, 173,
    251, 245, 94, 158, 239, 54, 183, 251, 253, 79, 252, 207, 103, 63, 217, 252, 158, 254, 235, 119,
    171, 249, 125, 215, 94, 207, 119, 188, 250, 185, 223, 238, 229, 115, 183, 123, 221, 223, 174, 239,
    113, 190, 171, 253, 223, 246, 107, 87, 63, 186, 221, 203, 254, 237, 116, 191, 243, 125, 215, 250,
    174, 119, 187, 219, 237, 221, 252, 230, 55, 159, 251, 180, 219, 250, 111, 103, 157, 235, 245, 93,
    222, 175, 54, 191, 243, 249, 207, 124, 239, 87, 47, 219, 253, 158, 190, 235, 119, 167, 249, 253,
    87, 126, 207, 103, 190, 249, 248, 159, 238, 237, 119, 179, 123, 93, 223, 158, 239, 115, 189, 234,
    189, 223, 246, 103, 83, 191, 58, 253, 219, 238, 239, 117, 190, 179, 125, 223, 246, 170, 119, 59,
    251, 205, 205, 254, 229, 118, 159, 251, 188, 215, 250, 239, 103, 189, 219, 229, 95, 220, 238, 54,
    191, 251, 245, 203, 252, 111, 119, 31, 203, 253, 156, 254, 171, 119, 175, 241, 249, 215, 126, 207,
    87, 174, 251, 249, 222, 174, 237, 119, 183, 123, 221, 95, 190, 207, 99, 191, 233, 252, 159, 246,
    111, 87, 187, 186, 125, 219, 222, 239, 117, 189, 242, 61, 223, 254, 166, 115, 187, 123, 237, 221,
    238, 231, 117, 158, 187, 188, 223, 242, 235, 103, 61, 251, 213, 79, 222, 237, 54, 191, 251, 253,
    199>>

bufferPrimes ==
  << <<7, 67, 71>>,
     <<11, 41, 73>>,
     <<13, 43, 59>>,
     <<17, 37, 53>>,
     <<19, 29, 61>>,
     <<23, 31, 47>>,
     <<79, 97>>,
     <<83, 89>> >>

buffersDist ==
  (7 * 67 * 71) * 30 +
  (11 * 41 * 73) * 30 +
  (13 * 43 * 59) * 30 +
  (17 * 37 * 53) * 30 +
  (19 * 29 * 61) * 30 +
  (23 * 31 * 47) * 30 +
  (79 * 97) * 30 +
  (83 * 89) * 30

\* A variant of EratInitThrows that requires maxPrime * maxPrime <= l1CacheSize.
EratInitThrowsSquare(l1CacheSize, maxPrime) ==
  U64Lt(l1CacheSize, U64MulSmall(maxPrime, maxPrime[1]))

\* EratSmall::init throws iff maxPrime > l1CacheSize * 3 (in uint64_t).
EratInitThrows(l1CacheSize, maxPrime) ==
  U64Lt(U64MulSmall(l1CacheSize, 3), maxPrime)

\* uint64_t product = 30; for (prime : bufferPrimes[i]) product *= prime;
RECURSIVE ProductFrom(_, _, _)
ProductFrom(ps, j, product) ==
  IF j > Len(ps) THEN product ELSE ProductFrom(ps, j + 1, product * ps[j])

\* for (prime : bufferPrimes[i]) eratSmall.addSievingPrime(prime, start);
RECURSIVE AddPrimesFrom(_, _, _, _)
AddPrimesFrom(prs, ps, j, start) ==
  IF j > Len(ps) THEN prs
  ELSE AddPrimesFrom(AddedSievingPrime(prs, ps[j], start), ps, j + 1, start)

\* One iteration of the loop of PreSieve::initBuffers, for buffer i (1-based):
\* the buffer it builds, and whether the nested EratSmall::init threw.
InitBuffer(i) ==
  LET product == ProductFrom(bufferPrimes[i], 1, 30)
      start == product
      size == product \div 30
      maxPrime == bufferPrimes[i][Len(bufferPrimes[i])]
      threw == EratInitThrows(U64(size), U64(maxPrime))
      prs == AddPrimesFrom(<<>>, bufferPrimes[i], 1, start)
  IN [threw |-> threw,
      maxPrime |-> maxPrime,
      buffer |-> IF threw THEN FilledArray(size)
                 ELSE CrossOffOuter(prs, FilledArray(size), size, U64(size)).sieve]

EmptyBuffers == <<<<>>, <<>>, <<>>, <<>>, <<>>, <<>>, <<>>, <<>>>>

\* PreSieve::initBuffers from buffer i on; an exception of EratSmall::init
\* leaves the loop with the buffers built so far.
RECURSIVE InitBuffersFrom(_, _, _)
InitBuffersFrom(bufs, maxPrime, i) ==
  IF i > Len(bufs) THEN [buffers |-> bufs, maxPrime |-> maxPrime, threw |-> FALSE]
  ELSE LET b == InitBuffer(i)
           next == [bufs EXCEPT ![i] = b.buffer]
       IN IF b.threw
          THEN [buffers |-> next, maxPrime |-> Max(maxPrime, b.maxPrime),
                threw |-> TRUE]
          ELSE InitBuffersFrom(next, Max(maxPrime, b.maxPrime), i + 1)

\* PreSieve::initBuffers.  It is only called with every buffer empty and
\* overwrites each buffer it reaches, so what it builds does not depend on
\* the state; maxPrime is the largest of the buffers' last primes.
InitBuffers == InitBuffersFrom(EmptyBuffers, 0, 1)

(***************************************************************************)
(* PreSieve::preSieve and the two copies it delegates to.                  *)
(***************************************************************************)
\* std::copy_n(&src[from], n, &dst[to]), src a table, dst a byte array
\* (the first half is copied before the second is begun).
RECURSIVE CopyN(_, _, _, _, _)
CopyN(src, from, n, dst, to) ==
  IF n <= 0 THEN dst
  ELSE IF n = 1 THEN SetByte(dst, to, src[from + 1])
  ELSE Only({ CopyN(src, from + h, n - h, first, to + h) :
                h \in {n \div 2},
                first \in {CopyN(src, from, n \div 2, dst, to)} })

\* A variant of SmallTiles without the loop: one copy of the table at most.
SmallTilesOnce(sv, i) ==
  CopyN(buffer_7_11_13, 0, Min(Len(buffer_7_11_13), ArrLen(sv) - i), sv, i)

\* The loop for (i = sizeLeft; i + size < sieve.size(); i += size) of
\* preSieveSmall and the copy of the last remaining bytes after it (a tile
\* is copied before the next is begun).
RECURSIVE SmallTiles(_, _)
SmallTiles(sv, i) ==
  LET size == Len(buffer_7_11_13)
  IN IF i + size < ArrLen(sv)
     THEN Only({ SmallTiles(tiled, i + size) :
                   tiled \in {CopyN(buffer_7_11_13, 0, size, sv, i)} })
     ELSE CopyN(buffer_7_11_13, 0, ArrLen(sv) - i, sv, i)

\* A variant of preSieveSmall that copies from the start of the table
\* whatever segmentLow is.
PreSieveSmallAtZero(sv, low) ==
  CopyN(buffer_7_11_13, 0, Min(ArrLen(sv), Len(buffer_7_11_13)), sv, 0)

\* PreSieve::preSieveSmall
PreSieveSmall(sv, low) ==
  LET size == Len(buffer_7_11_13)
      primeProduct == size * 30
      i == (low % primeProduct) \div 30
      sizeLeft == size - i
  IN IF ArrLen(sv) <= sizeLeft
     THEN CopyN(buffer_7_11_13, i, ArrLen(sv), sv, 0)
     ELSE Only({ SmallTiles(first, sizeLeft) :
                   first \in {CopyN(buffer_7_11_13, i, sizeLeft, sv, 0)} })

\* A variant of AndOfBuffers that leaves out the last buffer.
RECURSIVE AndOfAllButLast(_, _, _, _)
AndOfAllButLast(bufs, pos, i, b) ==
  IF b >= Len(bufs) THEN 255
  ELSE ByteAnd(ByteAt(bufs[b], pos[b] + i), AndOfAllButLast(bufs, pos, i, b + 1))

\* A variant of AndOfBuffers that reads the first buffer only.
AndOfFirst(bufs, pos, i, b) == ByteAt(bufs[1], pos[1] + i)

\* buf1[i] & buf2[i] & ... & buf8[i] of andBuffers, the buffers read from
\* their cursors pos.
RECURSIVE AndOfBuffers(_, _, _, _)
AndOfBuffers(bufs, pos, i, b) ==
  IF b > Len(bufs) THEN 255
  ELSE Only({ ByteAnd(x, rest) :
                x \in {ByteAt(bufs[b], pos[b] + i)},
                rest \in {AndOfBuffers(bufs, pos, i, b + 1)} })

\* andBuffers(...): output[i] for i in lo .. hi - 1, output = &sieve[offset]
\* (the first half is written before the second is begun).
RECURSIVE AndBuffers(_, _, _, _, _, _)
AndBuffers(bufs, pos, sv, offset, lo, hi) ==
  IF hi <= lo THEN sv
  ELSE IF hi = lo + 1
  THEN SetByte(sv, offset + lo, AndOfBuffers(bufs, pos, lo, 1))
  ELSE Only({ AndBuffers(bufs, pos, first, offset, mid, hi) :
                mid \in {(lo + hi) \div 2},
                first \in {AndBuffers(bufs, pos, sv, offset, lo,
                                      (lo + hi) \div 2)} })

\* The loop over the buffers that computes bytesToCopy.
RECURSIVE BytesToCopy(_, _, _, _)
BytesToCopy(bufs, pos, i, bytesToCopy) ==
  IF i > Len(bufs) THEN bytesToCopy
  ELSE BytesToCopy(bufs, pos, i + 1, Min(ArrLen(bufs[i]) - pos[i], bytesToCopy))

\* A variant of MovedCursors that sets a cursor back to 1 instead of 0.
MovedCursorsToOne(bufs, pos, bytesToCopy) ==
  [i \in 1..Len(bufs) |->
     IF pos[i] + bytesToCopy >= ArrLen(bufs[i]) THEN 1
     ELSE pos[i] + bytesToCopy]

\* The loop that advances the cursors: pos[i] += bytesToCopy, and a cursor
\* that has reached the size of its buffer goes back to 0.
MovedCursors(bufs, pos, bytesToCopy) ==
  [i \in 1..Len(bufs) |->
     IF pos[i] + bytesToCopy >= ArrLen(bufs[i]) THEN 0
     ELSE pos[i] + bytesToCopy]

\* The while (offset < sieve.size()) loop of preSieveLarge (an iteration is
\* completed before the next is begun).
RECURSIVE LargeLoop(_, _, _, _)
LargeLoop(bufs, sv, offset, pos) ==
  IF offset >= ArrLen(sv) THEN sv
  ELSE Only({ Only({ LargeLoop(bufs, out, next, moved) :
                       out \in {AndBuffers(bufs, pos, sv, offset, 0,
                                           bytesToCopy)},
                       next \in {offset + bytesToCopy},
                       moved \in {MovedCursors(bufs, pos, bytesToCopy)} }) :
                bytesToCopy \in {BytesToCopy(bufs, pos, 1,
                                             ArrLen(sv) - offset)} })

\* The loop heads of the while loop of preSieveLarge on a sieve of size
\* bytes, from the head with the given offset and cursors on: at each head
\* the offset, the cursors and, where the body runs, its bytesToCopy.
RECURSIVE LargeHeads(_, _, _, _)
LargeHeads(bufs, size, offset, pos) ==
  IF offset >= size
  THEN <<[offset |-> offset, pos |-> pos, bytesToCopy |-> 0, body |-> FALSE]>>
  ELSE LET bytesToCopy == BytesToCopy(bufs, pos, 1, size - offset)
       IN <<[offset |-> offset, pos |-> pos, bytesToCopy |-> bytesToCopy,
             body |-> TRUE]>>
            \o LargeHeads(bufs, size, offset + bytesToCopy,
                          MovedCursors(bufs, pos, bytesToCopy))

\* A variant of LargeCursors that reduces every cursor by the period of the
\* first buffer.
LargeCursorsOnePeriod(bufs, low) ==
  [i \in 1..Len(bufs) |->
     ((low % (ArrLen(bufs[1]) * 30)) \div 30) % ArrLen(bufs[i])]

\* The loop that sets the cursors:
\* pos[i] = (segmentLow % (buffers_[i].size() * 30)) / 30
LargeCursors(bufs, low) ==
  [i \in 1..Len(bufs) |-> (low % (ArrLen(bufs[i]) * 30)) \div 30]

\* PreSieve::preSieveLarge
PreSieveLarge(bufs, sv, low) ==
  LargeLoop(bufs, sv, 0, LargeCursors(bufs, low))

\* A variant of Corrections in which no if statement runs.
CorrectionsNone(low) == <<>>

\* The bytes that the four if statements at the end of preSieve write, in
\* order, to sieve[0], sieve[1], ...: each statement that runs writes at i
\* and increments i.
Corrections(low) ==
  LET bit49 == 2^4
      bit77 == 2^3
      bit91 == 2^7
      bit119 == 2^6
      bit121 == 2^7
  IN (IF low < 30 THEN <<255>> ELSE <<>>)
       \o (IF low < 60 THEN <<ByteXor(255, bit49)>> ELSE <<>>)
       \o (IF low < 90 THEN <<ByteXor(ByteXor(255, bit77), bit91)>> ELSE <<>>)
       \o (IF low < 120 THEN <<ByteXor(ByteXor(255, bit119), bit121)>> ELSE <<>>)

\* A variant of WriteCorrections that writes nothing.
WriteCorrectionsNone(sv, cs, j) == sv

\* sieve[j - 1] = cs[j] for j = i .. Len(cs), as far as the array reaches.
RECURSIVE WriteCorrections(_, _, _)
WriteCorrections(sv, cs, j) ==
  IF j > Len(cs) \/ j > ArrLen(sv) THEN sv
  ELSE WriteCorrections(SetByte(sv, j - 1, cs[j]), cs, j + 1)

\* PreSieve::preSieve.  A correction byte written at an index >= sieve.size()
\* is a write past the end of the array: it leaves the bytes of the array
\* as they are and is reported in outOfBounds.
PreSieve(bufs, sv, low) ==
  LET copied == IF ArrLen(bufs[1]) = 0 THEN PreSieveSmall(sv, low)
                ELSE PreSieveLarge(bufs, sv, low)
  IN [sieve |-> Only({ WriteCorrections(c, cs, 1) :
                         c \in {copied}, cs \in {Corrections(low)} }),
      outOfBounds |-> Len(Corrections(low)) > ArrLen(sv)]

(***************************************************************************)
(* The driver of EratSmall: init, then per segment a sieve filled with     *)
(* 0xff, the sieving primes of the segment, and one crossOff pass.         *)
(***************************************************************************)
MaxStored == 2
MaxSegments == 2
MaxSieveSize == 58

\* The primes offered to addSievingPrime: one of each class of the wheel.
Primes == {7, 11, 13, 17, 19, 23, 29, 31}

SieveSizes == {0, 1, 31, MaxSieveSize}

StartLows == {0, 90}

\* 2^63 and 2^63 + 1 as uint64_t.
Pow63 == <<0, 0, 0, 2^15>>
Pow63Plus1 == <<1, 0, 0, 2^15>>

\* The (l1CacheSize, maxPrime) offered to EratSmall::init.
EratInitArgs ==
  { <<U64(1024), U64(4000)>>, <<U64(1024), U64(3072)>>, <<U64(1024), U64(3073)>>,
    <<U64(30), U64(90)>>, <<U64(4), U64(12)>>, <<U64(0), U64(0)>>,
    <<U64(0), U64(1)>>, <<Pow63, Pow63Plus1>>, <<Pow63, U64(5)>> }

Call(op, args, threw, outOfBounds) ==
  [op |-> op, args |-> args, threw |-> threw, outOfBounds |-> outOfBounds]

Init ==
  /\ enabled_ = FALSE
  /\ maxPrime_ = U64(0)
  /\ l1CacheSize_ = U64(0)
  /\ primes_ = <<>>
  /\ buffers_ = [i \in 1..Len(bufferPrimes) |-> 0]
  /\ totalDist_ = U64(0)
  /\ preMaxPrime_ = 13
  /\ sieve = <<>>
  /\ segmentLow = 0
  /\ segments = 0
  /\ inits = 0
  /\ pc = "new"
  /\ last = Call("none", <<>>, FALSE, FALSE)

\* EratSmall::init(stop, l1CacheSize, maxPrime)
EratInit(l1CacheSize, maxPrime) ==
  /\ pc \in {"new", "inited"}
  /\ IF EratInitThrows(l1CacheSize, maxPrime)
     THEN /\ UNCHANGED <<enabled_, maxPrime_, l1CacheSize_, pc>>
          /\ last' = Call("eratInit", <<l1CacheSize, maxPrime>>, TRUE, FALSE)
     ELSE /\ enabled_' = TRUE
          /\ maxPrime_' = maxPrime
          /\ l1CacheSize_' = l1CacheSize
          /\ pc' = "inited"
          /\ last' = Call("eratInit", <<l1CacheSize, maxPrime>>, FALSE, FALSE)
  /\ UNCHANGED <<primes_, buffers_, totalDist_, preMaxPrime_, sieve, segmentLow,
                 segments, inits>>

\* The driver begins the first segment: a sieve of size bytes, each 0xff.
StartSegment(low, size) ==
  /\ pc = "inited"
  /\ sieve' = FilledArray(size)
  /\ segmentLow' = low
  /\ segments' = 1
  /\ pc' = "ready"
  /\ last' = Call("fill", <<low, size>>, FALSE, FALSE)
  /\ UNCHANGED <<enabled_, maxPrime_, l1CacheSize_, primes_, buffers_,
                 totalDist_, preMaxPrime_, inits>>

\* EratSmall::addSievingPrime(prime, segmentLow): the driver adds the
\* sieving primes in ascending order, skipping none after the first, and
\* none above maxPrime_.
AddSievingPrime(prime) ==
  /\ pc = "ready"
  /\ Len(primes_) < MaxStored
  /\ ~U64Lt(maxPrime_, U64(prime))
  /\ \A i \in 1..Len(primes_) :
       /\ PrimeOf(primes_[i]) < prime
       /\ \A q \in Primes : ~(PrimeOf(primes_[i]) < q /\ q < prime)
  /\ primes_' = AddedSievingPrime(primes_, prime, segmentLow)
  /\ last' = Call("addSievingPrime", <<prime, segmentLow>>, FALSE, FALSE)
  /\ UNCHANGED <<enabled_, maxPrime_, l1CacheSize_, buffers_, totalDist_,
                 preMaxPrime_, sieve, segmentLow, segments, inits, pc>>

\* EratSmall::crossOff(sieve, sieveSize) on the sieve of the segment.  When
\* its loop does not end, every iteration calls the inner crossOff on the
\* empty block [0, 0): the call does not return, or, the loop being one
\* without side effects that the implementation may assume to terminate, it
\* returns with nothing crossed off.
CrossOff ==
  /\ pc = "ready"
  /\ IF CrossOffEnds(ArrLen(sieve), l1CacheSize_)
     THEN LET r == CrossOffOuter(primes_, sieve, ArrLen(sieve), l1CacheSize_)
          IN /\ primes_' = r.primes
             /\ sieve' = r.sieve
             /\ pc' = "crossed"
     ELSE /\ pc' \in {"hung", "crossed"}
          /\ UNCHANGED <<primes_, sieve>>
  /\ last' = Call("crossOff", <<ArrLen(sieve)>>, FALSE, FALSE)
  /\ UNCHANGED <<enabled_, maxPrime_, l1CacheSize_, buffers_, totalDist_,
                 preMaxPrime_, segmentLow, segments, inits>>

\* The driver moves to the next segment: segmentLow advances by 30 integers
\* per byte and the sieve is filled with 0xff again.
NextSegment ==
  /\ pc = "crossed"
  /\ segments < MaxSegments
  /\ segmentLow' = segmentLow + 30 * ArrLen(sieve)
  /\ sieve' = FilledArray(ArrLen(sieve))
  /\ segments' = segments + 1
  /\ pc' = "ready"
  /\ last' = Call("fill", <<segmentLow + 30 * ArrLen(sieve), ArrLen(sieve)>>,
                  FALSE, FALSE)
  /\ UNCHANGED <<enabled_, maxPrime_, l1CacheSize_, primes_, buffers_,
                 totalDist_, preMaxPrime_, inits>>

NextErat ==
  \/ \E a \in EratInitArgs : EratInit(a[1], a[2])
  \/ \E low \in StartLows, size \in SieveSizes : StartSegment(low, size)
  \/ \E prime \in Primes : AddSievingPrime(prime)
  \/ CrossOff
  \/ NextSegment

SpecErat == Init /\ [][NextErat]_vars

(***************************************************************************)
(* Properties of EratSmall, checked under SpecErat.                        *)
(***************************************************************************)
StoredPrimes == {PrimeOf(primes_[i]) : i \in 1..Len(primes_)}

DividedByAny(n, ps) == \E p \in ps : n % p = 0

\* C1: after addSievingPrime and one crossOff pass over a sieve that was
\* filled with 0xff, a bit of the sieve is cleared iff the integer it
\* designates is a multiple of a stored prime; every other bit is still set.
CrossOffExact ==
  pc = "crossed" =>
    \A b \in 0..(ArrLen(sieve) - 1), k \in 0..7 :
      BitSet(ByteAt(sieve, b), k)
        <=> ~DividedByAny(IntegerOf(segmentLow, b, k), StoredPrimes)

\* A crossOff pass over more than one revolution of 7 has cleared 49.
CrossOffExactWitness ==
  /\ pc = "crossed"
  /\ segmentLow = 0
  /\ 7 \in StoredPrimes
  /\ ArrLen(sieve) > 31
  /\ ~BitSet(ByteAt(sieve, 1), 4)
  /\ BitSet(ByteAt(sieve, 1), 3)

\* C3: for the stored prime states and sieve bytes of every state, and all
\* a <= m <= b, the inner crossOff on [a, b) yields the sieve bytes and prime
\* states that the inner crossOff on [a, m) followed by the one on [m, b)
\* yields; and the outer crossOff yields the same for every l1CacheSize > 0.
Resumable ==
  LET n == ArrLen(sieve)
  IN /\ \A e \in {0, Min(1, n \div 2)} : \A m \in e..(n - e) :
          LET a == e
              b == n - e
              left == CrossOffInner(primes_, sieve, a, m)
          IN CrossOffInner(primes_, sieve, a, b)
               = CrossOffInner(left.primes, left.sieve, m, b)
     /\ \A l1 \in 1..(n + 1) :
          CrossOffOuter(primes_, sieve, n, U64(l1))
            = CrossOffInner(primes_, sieve, 0, n)

\* A pass was made in blocks smaller than the sieve, with a prime whose
\* revolution was interrupted at a block end.
ResumableWitness ==
  /\ pc = "crossed"
  /\ U64Lt(l1CacheSize_, U64(ArrLen(sieve)))
  /\ \E i \in 1..Len(primes_) : primes_[i].wheelIndex % 8 # 0

\* The saved state of a record designates, relative to a segment start next,
\* the least multiple of its prime that a byte from that start on designates.
SavedIsNext(rec, next) ==
  LET p == PrimeOf(rec)
      m == IntegerOf(next, rec.multipleIndex, StrikeBit[rec.wheelIndex + 1])
  IN /\ rec.multipleIndex >= 0
     /\ rec.wheelIndex \in 0..63
     /\ m % p = 0
     /\ \A x \in IntegerOf(next, 0, 0)..(m - 1) : ~(x % p = 0 /\ CoprimeTo30(x))

\* C4: after an outer crossOff pass, and after an inner crossOff pass over
\* any prefix [0, m) of the sieve, every record designates the first multiple
\* of its prime at or beyond the end of the range, multipleIndex counted in
\* bytes from that end; in every segment.
SavedStateIsNextMultiple ==
  /\ pc = "crossed" =>
       \A i \in 1..Len(primes_) :
         SavedIsNext(primes_[i], segmentLow + 30 * ArrLen(sieve))
  /\ pc = "ready" =>
       \A m \in 0..ArrLen(sieve) :
         LET r == CrossOffInner(primes_, sieve, 0, m)
         IN \A i \in 1..Len(primes_) :
              SavedIsNext(r.primes[i], segmentLow + 30 * m)

\* The second segment has been crossed off with two stored primes.
SavedStateWitness ==
  /\ pc = "crossed"
  /\ segments = 2
  /\ Len(primes_) = 2
  /\ ArrLen(sieve) > 31

\* 3 * x as a natural number: five limbs, nothing cut off.
Triple(x) ==
  LET s1 == x[1] * 3
      s2 == x[2] * 3 + (s1 \div LimbBase)
      s3 == x[3] * 3 + (s2 \div LimbBase)
      s4 == x[4] * 3 + (s3 \div LimbBase)
  IN <<s1 % LimbBase, s2 % LimbBase, s3 % LimbBase, s4 % LimbBase,
       s4 \div LimbBase>>

\* maxPrime > 3 * l1CacheSize, as natural numbers.
ExceedsTriple(maxPrime, l1CacheSize) ==
  LET t == Triple(l1CacheSize)
      x == maxPrime \o <<0>>
  IN \E i \in 1..5 : t[i] < x[i] /\ \A j \in (i + 1)..5 : t[j] = x[j]

\* C5: EratSmall::init throws iff maxPrime > 3 * l1CacheSize; when it throws
\* the instance is unchanged (checked by InitErrorFrame), when it does not
\* maxPrime_ and l1CacheSize_ hold the arguments and enabled_ is set.
InitErrorIff ==
  last.op = "eratInit" =>
    /\ last.threw <=> ExceedsTriple(last.args[2], last.args[1])
    /\ ~last.threw =>
         enabled_ /\ maxPrime_ = last.args[2] /\ l1CacheSize_ = last.args[1]

\* The part of C5 that the code satisfies: a throwing init changes nothing
\* of the instance, a returning init records its arguments.
InitErrorFrame ==
  [][\A a \in EratInitArgs :
       EratInit(a[1], a[2]) =>
         IF last'.threw THEN UNCHANGED eratVars
         ELSE enabled_' /\ maxPrime_' = a[2] /\ l1CacheSize_' = a[1]
                /\ primes_' = primes_]_vars

(***************************************************************************)
(* The driver of PreSieve: init at the start of a sieving session, then    *)
(* preSieve on the sieve of each segment.                                  *)
(***************************************************************************)
MaxInits == 2
MaxLen == 5

\* (uint64_t) std::sqrt(stop): for stop < 2^52 the conversion to double is
\* exact and the truncated root is the integer square root; the bisection
\* keeps lo * lo <= n < hi * hi.
RECURSIVE SqrtBetween(_, _, _)
SqrtBetween(n, lo, hi) ==
  IF hi - lo <= 1 THEN lo
  ELSE LET mid == (lo + hi) \div 2
       IN IF mid * mid <= n THEN SqrtBetween(n, mid, hi)
          ELSE SqrtBetween(n, lo, mid)

Sqrt(n) == SqrtBetween(n, 0, 2^15 + 2^14)

\* A variant of Dist without the square root of stop.
DistNoSqrt(start, stop) == Max(start, stop) - start

\* dist of PreSieve::init
Dist(start, stop) == Max(Max(start, stop) - start, Sqrt(stop))

\* A variant of BelowThreshold for which no distance is small.
BelowThresholdNever(total) == FALSE

\* if (totalDist_ < buffersDist * 20) return;
BelowThreshold(total) == U64Lt(total, U64(buffersDist * 20))

\* The (start, stop) offered to PreSieve::init, all below 2^31.
InitRanges ==
  { <<0, buffersDist * 20>>, <<0, buffersDist * 10>>, <<1000, 10>> }

\* The segmentLow offered to preSieve: the segments that get correction
\* bytes, the last byte and the wrap of the static table, the last byte of
\* the seventh buffer.
ApplyLows == {0, 30, 60, 90, 120, 30000, 30030, 229860}

\* The (segmentLow, sieve size) offered to preSieve: short sieves at every
\* segmentLow, sieves of the size of the static table where it begins, ends
\* and wraps.
ApplySegments ==
  (ApplyLows \X (0..MaxLen))
    \cup ({0, 30000, 30030} \X {Len(buffer_7_11_13)})

\* The bytes a sieve holds before preSieve writes it.
StaleBytes == {0, 255}

\* PreSieve::buffers_ as arrays: a buffer that has been resized holds the
\* bytes that initBuffers wrote to it.
Buffers ==
  [i \in 1..Len(buffers_) |->
     IF buffers_[i] = 0 THEN <<>> ELSE InitBuffers.buffers[i]]

\* PreSieve::init(start, stop), at the start of a session with a new sieve.
PreSieveInit(start, stop) ==
  /\ pc \in {"new", "inited", "presieved"}
  /\ inits < MaxInits
  /\ inits' = inits + 1
  /\ IF buffers_[1] # 0
     THEN /\ UNCHANGED <<buffers_, totalDist_, preMaxPrime_>>
          /\ last' = Call("init", <<start, stop>>, FALSE, FALSE)
     ELSE LET total == U64Add(totalDist_, U64(Dist(start, stop)))
          IN /\ totalDist_' = total
             /\ IF BelowThreshold(total)
                THEN /\ UNCHANGED <<buffers_, preMaxPrime_>>
                     /\ last' = Call("init", <<start, stop>>, FALSE, FALSE)
                ELSE /\ buffers_' = [i \in 1..Len(buffers_) |->
                                       ArrLen(InitBuffers.buffers[i])]
                     /\ preMaxPrime_' = Max(preMaxPrime_, InitBuffers.maxPrime)
                     /\ last' = Call("init", <<start, stop>>, InitBuffers.threw,
                                     FALSE)
  /\ sieve' = <<>>
  /\ segmentLow' = 0
  /\ pc' = "inited"
  /\ UNCHANGED <<enabled_, maxPrime_, l1CacheSize_, primes_, segments>>

\* PreSieve::preSieve(sieve, segmentLow) on a sieve of len stale bytes.
Apply(low, len, stale) ==
  /\ pc = "inited"
  /\ \E bufs \in {Buffers}, sv \in {ArrayOf(len, stale)} :
       \E r \in {PreSieve(bufs, sv, low)} :
         /\ sieve' = r.sieve
         /\ last' = Call("apply", <<low, len>>, FALSE, r.outOfBounds)
  /\ segmentLow' = low
  /\ pc' = "presieved"
  /\ UNCHANGED <<enabled_, maxPrime_, l1CacheSize_, primes_, buffers_,
                 totalDist_, preMaxPrime_, segments, inits>>

\* The driver is done with the segment and hands the sieve on.
EndSegment ==
  /\ pc = "presieved"
  /\ sieve' = <<>>
  /\ segmentLow' = 0
  /\ pc' = "inited"
  /\ last' = Call("end", <<>>, FALSE, FALSE)
  /\ UNCHANGED <<enabled_, maxPrime_, l1CacheSize_, primes_, buffers_,
                 totalDist_, preMaxPrime_, segments, inits>>

NextPre ==
  \/ \E r \in InitRanges : PreSieveInit(r[1], r[2])
  \/ \E s \in ApplySegments, stale \in StaleBytes : Apply(s[1], s[2], stale)
  \/ EndSegment

SpecPre == Init /\ [][NextPre]_vars

(***************************************************************************)
(* Properties of PreSieve, checked under SpecPre.                          *)
(***************************************************************************)
\* The 22 primes of the eight buffers, and the primes of the static table.
PreSievePrimes ==
  UNION {{bufferPrimes[i][j] : j \in 1..Len(bufferPrimes[i])} :
           i \in 1..Len(bufferPrimes)}

TablePrimes == {7, 11, 13}

Built == buffers_[1] # 0

Applied == pc = "presieved"

SieveBits == (0..(ArrLen(sieve) - 1)) \X (0..7)

\* The integer n is divisible by none of the primes ps, or is one of them.
Unsieved(n, ps) == ~DividedByAny(n, ps) \/ n \in ps

\* The bit of the integer n, where the sieve of the segment has one.
IsSet(n) ==
  \E s \in SieveBits :
    IntegerOf(segmentLow, s[1], s[2]) = n /\ BitSet(ByteAt(sieve, s[1]), s[2])

IsCleared(n) ==
  \E s \in SieveBits :
    IntegerOf(segmentLow, s[1], s[2]) = n /\ ~BitSet(ByteAt(sieve, s[1]), s[2])

\* C2, as stated: after preSieve, whether or not the buffers are built, a
\* bit is set iff its integer is divisible by none of the 22 primes or is
\* one of them or 49.
ApplySievesAll ==
  Applied =>
    \A s \in SieveBits :
      BitSet(ByteAt(sieve, s[1]), s[2])
        <=> Unsieved(IntegerOf(segmentLow, s[1], s[2]), PreSievePrimes \cup {49})

\* C2, amended: after preSieve a bit is set iff its integer is divisible by
\* none of the primes of the mode or is one of them; the primes of the mode
\* are the 22 primes when the buffers are built, and 7, 11, 13 when not; 49
\* is cleared in both modes.
ApplySievesMode ==
  Applied =>
    \A s \in SieveBits :
      BitSet(ByteAt(sieve, s[1]), s[2])
        <=> Unsieved(IntegerOf(segmentLow, s[1], s[2]),
                     IF Built THEN PreSievePrimes ELSE TablePrimes)

\* Without the buffers, preSieve has left 17 * 19 = 323 set and cleared 49.
ApplySievesModeWitness ==
  /\ Applied
  /\ ~Built
  /\ segmentLow = 0
  /\ IsSet(323)
  /\ IsCleared(49)

\* The bytes of buffer i are those of a sieve from 0 on in which exactly the
\* multiples of the primes of the buffer are cleared.
BufferSieved(i) ==
  LET ps == {bufferPrimes[i][j] : j \in 1..Len(bufferPrimes[i])}
      buf == InitBuffers.buffers[i]
  IN \A b \in 0..(ArrLen(buf) - 1) : \A k \in 0..7 :
       BitSet(ByteAt(buf, b), k) <=> ~DividedByAny(IntegerOf(0, b, k), ps)

BuffersSieved == \A i \in 1..Len(bufferPrimes) : BufferSieved(i)

\* C7: when the buffers are built, buffer i has the size of the product of
\* its primes and exactly the multiples of its primes cleared, and after
\* preSieve a bit is set iff its integer is divisible by none of the 22
\* primes or is one of them.
LargeBuffersExact ==
  Built =>
    /\ BuffersSieved
    /\ \A i \in 1..Len(bufferPrimes) :
         buffers_[i] = ProductFrom(bufferPrimes[i], 1, 1)
    /\ Applied =>
         \A s \in SieveBits :
           BitSet(ByteAt(sieve, s[1]), s[2])
             <=> Unsieved(IntegerOf(segmentLow, s[1], s[2]), PreSievePrimes)

\* With the buffers built, preSieve at segmentLow = 0 has left 97 set and
\* cleared 49, 77, 91, 119 and 121.
LargeBuffersWitness ==
  /\ Applied
  /\ Built
  /\ segmentLow = 0
  /\ IsSet(97)
  /\ \A n \in {49, 77, 91, 119, 121} : IsCleared(n)

\* Byte j, bit k of the static table is set iff the integer it designates
\* is divisible by none of 7, 11, 13.
TableSieved ==
  \A j \in 0..(Len(buffer_7_11_13) - 1) : \A k \in 0..7 :
    BitSet(buffer_7_11_13[j + 1], k)
      <=> ~DividedByAny(IntegerOf(0, j, k), TablePrimes)

\* C8: when the buffers are not built, after preSieve a bit is set iff its
\* integer is divisible by none of 7, 11, 13 or is one of them, for sieves
\* of the size of the static table too; and the static table has exactly
\* the multiples of 7, 11 and 13 cleared.
SmallTableExact ==
  /\ TableSieved
  /\ Applied /\ ~Built =>
       \A s \in SieveBits :
         BitSet(ByteAt(sieve, s[1]), s[2])
           <=> Unsieved(IntegerOf(segmentLow, s[1], s[2]), TablePrimes)

\* Without the buffers, preSieve has written a sieve of 1001 bytes at
\* segmentLow = 0, with 7, 11, 13 set and 30029 = 13 * 2310 - 1 set.
SmallTableWitness ==
  /\ Applied
  /\ ~Built
  /\ segmentLow = 0
  /\ ArrLen(sieve) = Len(buffer_7_11_13)
  /\ \A n \in TablePrimes : IsSet(n)
  /\ IsCleared(1001)

\* What the copy of preSieve leaves in the sieve, before the correction
\* bytes are written.
Copied ==
  IF Built THEN PreSieveLarge(Buffers, sieve, segmentLow)
  ELSE PreSieveSmall(sieve, segmentLow)

\* The arrays x and y hold the same bytes from index from on.
SameFrom(x, y, from) ==
  /\ ArrLen(x) = ArrLen(y)
  /\ \A j \in from..(ArrLen(x) - 1) : ByteAt(x, j) = ByteAt(y, j)

\* The four correction bytes.
CorrectionBytes ==
  <<255, ClearBit(255, 4), ClearBit(ClearBit(255, 3), 7),
    ClearBit(ClearBit(255, 6), 7)>>

\* C9, as stated: for segmentLow in {0, 30, 60, 90} correction byte j is at
\* sieve[j] when segmentLow < 30 * (j + 1), and for segmentLow >= 120 the
\* sieve is as the copy left it.
CorrectionsAtFixedIndices ==
  Applied =>
    /\ segmentLow < 120 =>
         \A j \in 0..3 :
           (j < ArrLen(sieve) /\ segmentLow < 30 * (j + 1))
             => ByteAt(sieve, j) = CorrectionBytes[j + 1]
    /\ segmentLow >= 120 => sieve = Copied

\* C9, amended: the correction bytes whose condition holds are written to
\* sieve[0], sieve[1], ... in order: with n = segmentLow / 30 < 4, sieve[j]
\* is correction byte n + j for j < 4 - n; every other byte, and every byte
\* when segmentLow >= 120, is as the copy left it.
CorrectionsAtRelativeIndices ==
  Applied =>
    LET n == Min(segmentLow \div 30, 4)
    IN /\ \A j \in 0..(Min(4 - n, ArrLen(sieve)) - 1) :
            ByteAt(sieve, j) = CorrectionBytes[n + j + 1]
       /\ SameFrom(sieve, Copied, 4 - n)

\* preSieve at segmentLow = 30 has written the byte of 49 to sieve[0] and
\* the byte of 119 and 121 to sieve[2].
CorrectionsWitness ==
  /\ Applied
  /\ segmentLow = 30
  /\ ArrLen(sieve) >= 4
  /\ ByteAt(sieve, 0) = CorrectionBytes[2]
  /\ ByteAt(sieve, 2) = CorrectionBytes[4]
  /\ ByteAt(sieve, 1) # CorrectionBytes[2]

\* C10, as stated: at segmentLow = 0, in either mode, after preSieve on a
\* sieve that holds the first 120 integers, 7 is set, 49 is cleared, 77 is
\* set and 121 is cleared.
FirstBytesAsStated ==
  (Applied /\ segmentLow = 0 /\ ArrLen(sieve) >= 4) =>
    IsSet(7) /\ IsCleared(49) /\ IsSet(77) /\ IsCleared(121)

\* C10, amended: at segmentLow = 0, in either mode, after preSieve on a
\* sieve that holds the first 120 integers, 7 is set and 49, 77 = 7 * 11 and
\* 121 are cleared.
FirstBytesCorrected ==
  (Applied /\ segmentLow = 0 /\ ArrLen(sieve) >= 4) =>
    IsSet(7) /\ IsCleared(49) /\ IsCleared(77) /\ IsCleared(121)

\* preSieve at segmentLow = 0 with the buffers built, on a sieve of at
\* least four bytes.
FirstBytesWitness ==
  /\ Applied
  /\ Built
  /\ segmentLow = 0
  /\ ArrLen(sieve) >= 4
  /\ IsCleared(77)

\* The layout r gives bit k the integer low + 30 * b + r[k + 1]: the static
\* table uses it when exactly the multiples of 7, 11, 13 are cleared in it.
TableUses(r) ==
  \A j \in 0..(Len(buffer_7_11_13) - 1) : \A k \in 0..7 :
    BitSet(buffer_7_11_13[j + 1], k)
      <=> ~DividedByAny(30 * j + r[k + 1], TablePrimes)

\* The correction bytes use the layout r when the bits they clear are those
\* of 49, 77, 91, 119 and 121.
CorrectionsUse(r) ==
  \A j \in 0..3 : \A k \in 0..7 :
    BitSet(Corrections(0)[j + 1], k)
      <=> 30 * j + r[k + 1] \notin {49, 77, 91, 119, 121}

\* The strike tables use the layout r when, for every class and phase, the
\* integers of two successive strikes differ by a positive multiple of the
\* prime.
StrikesUse(r, sp) ==
  \A w \in 0..63 :
    LET prime == 30 * sp + RevolutionAdd[(w \div 8) + 1]
        step == 30 * (sp * StepMul[w + 1] + StepAdd[w + 1])
                  + r[StrikeBit[NextLabel(w) + 1] + 1] - r[StrikeBit[w + 1] + 1]
    IN step > 0 /\ step % prime = 0

\* The layout of the specification.
ResiduesFrom1 == <<1, 7, 11, 13, 17, 19, 23, 29>>

\* C6, as stated: with r = (1, 7, 11, 13, 17, 19, 23, 29) the static table,
\* the correction bytes and the strike tables all use the layout r, and so
\* does the sieve after preSieve from the static table.
LayoutFrom1 ==
  /\ TableUses(ResiduesFrom1)
  /\ CorrectionsUse(ResiduesFrom1)
  /\ \A sp \in 0..3 : StrikesUse(ResiduesFrom1, sp)
  /\ Applied /\ ~Built =>
       \A s \in SieveBits :
         BitSet(ByteAt(sieve, s[1]), s[2])
           <=> Unsieved(segmentLow + 30 * s[1] + ResiduesFrom1[s[2] + 1], TablePrimes)

\* C6, amended: with r = (7, 11, 13, 17, 19, 23, 29, 31), so that byte b
\* covers segmentLow + 30 * b + 7 up to segmentLow + 30 * b + 36, the static
\* table, the correction bytes and the strike tables all use the layout r,
\* and so does the sieve after preSieve from the static table.
LayoutFrom7 ==
  /\ TableUses(BitValue)
  /\ CorrectionsUse(BitValue)
  /\ \A sp \in 0..3 : StrikesUse(BitValue, sp)
  /\ Applied /\ ~Built =>
       \A s \in SieveBits :
         BitSet(ByteAt(sieve, s[1]), s[2])
           <=> Unsieved(segmentLow + 30 * s[1] + BitValue[s[2] + 1], TablePrimes)

\* preSieve has written correction bytes over bytes of the static table:
\* bit 7 of sieve[0] at segmentLow = 60 is that of 91 = 60 + 31, bit 0 of
\* sieve[2] that of 127.
LayoutWitness ==
  /\ Applied
  /\ ~Built
  /\ segmentLow = 60
  /\ ArrLen(sieve) >= 3
  /\ ~BitSet(ByteAt(sieve, 0), 7)
  /\ BitSet(ByteAt(sieve, 2), 0)

(***************************************************************************)
(* Periods of the large pre-sieve.                                         *)
(***************************************************************************)
MaxPeriods == 2

\* preSieveLarge on a sieve of the length of the segment's sieve.
LargeAt(low) == PreSieveLarge(Buffers, sieve, low)

\* The byte that buffer i contributes to sieve[k] in preSieveLarge at low:
\* the byte under its cursor, k bytes on, the cursor wrapping at the size of
\* the buffer.
BufferStream(i, low, k) ==
  ByteAt(Buffers[i], (LargeCursors(Buffers, low)[i] + k) % buffers_[i])

\* C11, as stated: preSieveLarge at segmentLow + K * buffersDist writes the
\* bytes that preSieveLarge at segmentLow writes, for every K.
PeriodBuffersDist ==
  Applied /\ Built =>
    \A K \in 1..MaxPeriods :
      LargeAt(segmentLow + K * buffersDist) = LargeAt(segmentLow)

\* C11, amended: each buffer has its own period of 30 * (its size) integers:
\* at segmentLow + K * 30 * buffers_[i].size() the cursor of buffer i, and
\* with it every byte that buffer i contributes, is that at segmentLow.
PeriodPerBuffer ==
  Applied /\ Built =>
    \A i \in 1..Len(buffers_), K \in 1..MaxPeriods :
      LET low == segmentLow + K * 30 * buffers_[i]
      IN /\ LargeCursors(Buffers, low)[i] = LargeCursors(Buffers, segmentLow)[i]
         /\ \A k \in 0..(ArrLen(sieve) - 1) :
              BufferStream(i, low, k) = BufferStream(i, segmentLow, k)

\* preSieveLarge has been applied where the seventh buffer wraps, and one
\* buffersDist further on it writes other bytes.
PeriodWitness ==
  /\ Applied
  /\ Built
  /\ segmentLow = 30 * (buffers_[7] - 1)
  /\ ArrLen(sieve) >= 2
  /\ LargeAt(segmentLow + buffersDist) # LargeAt(segmentLow)

IsDist(d, start, stop) ==
  /\ d >= 0
  /\ d >= stop - start
  /\ d >= 2^15 \/ (d + 1) * (d + 1) > stop
  /\ \/ d = stop - start
     \/ d < 2^15 /\ d * d <= stop

BuiltSizes == [i \in 1..Len(bufferPrimes) |-> ProductFrom(bufferPrimes[i], 1, 1)]

ApplyInBounds ==
  last.op = "apply" => ~last.outOfBounds

\* The part of C18 that the code satisfies: a correction byte is written
\* past the end only when the sieve is shorter than the number of correction
\* bytes of its segment, 4 - segmentLow / 30.
ApplyInBoundsFromFour ==
  last.op = "apply" =>
    (last.outOfBounds
       <=> (last.args[1] < 120 /\ last.args[2] < 4 - (last.args[1] \div 30)))

\* A step that is a call of preSieve: the driver goes from "inited" to
\* "presieved".
ApplyStep == pc = "inited" /\ pc' = "presieved"

\* What preSieve leaves in a sieve of the segment's size that held the byte
\* stale everywhere.
AppliedOver(stale) ==
  PreSieve(Buffers, ArrayOf(ArrLen(sieve'), stale), segmentLow').sieve

\* C14: preSieve changes nothing but the bytes of the sieve (totalDist_, the
\* buffers and maxPrime_ stay, and no byte outside the sieve is written), and
\* what it leaves in the sieve does not depend on what the sieve held.
ApplyWritesSieveOnly ==
  [][ApplyStep =>
       /\ UNCHANGED preVars
       /\ ~last'.outOfBounds
       /\ \A stale \in StaleBytes : sieve' = AppliedOver(stale)]_vars

\* The part of C14 that the code satisfies: the instance is unchanged and
\* the bytes of the sieve after preSieve do not depend on the bytes before.
ApplyOverwritesSieve ==
  [][ApplyStep =>
       /\ UNCHANGED preVars
       /\ ArrLen(sieve') = last'.args[2]
       /\ \A stale \in StaleBytes : sieve' = AppliedOver(stale)]_vars

(***************************************************************************)
(* The driver of PreSieve with long sieves as well: sieves longer than the *)
(* static table and longer than every buffer, right after the first init.  *)
(***************************************************************************)
\* The (segmentLow, sieve size) of the long sieves: from the last byte of
\* the static table, one byte and one, two whole tables (the second with
\* two bytes more); and from the last byte of the seventh buffer, more
\* bytes than the largest buffer has.
LongSegments ==
  LET size == Len(buffer_7_11_13)
  IN ({30 * (size - 1)} \X {size + 1, 2 * size + 1, 2 * size + 3})
       \cup {<<30 * (BuiltSizes[7] - 1), BuiltSizes[5] + MaxLen>>}

\* PreSieve::preSieve(sieve, segmentLow) on a long sieve, as the first
\* segment after the first init.
ApplyLong(low, len) ==
  /\ inits = 1
  /\ last.op = "init"
  /\ Apply(low, len, 255)

NextPreLong ==
  \/ NextPre
  \/ \E s \in LongSegments : ApplyLong(s[1], s[2])

SpecPreLong == Init /\ [][NextPreLong]_vars

(***************************************************************************)
(* Properties of the two copies, checked under SpecPreLong.                *)
(***************************************************************************)
\* x[k] = buffer_7_11_13[(i + k) mod 1001] for every k.
TableIndexed(x, i) ==
  \A k \in 0..(ArrLen(x) - 1) :
    ByteAt(x, k) = buffer_7_11_13[((i + k) % Len(buffer_7_11_13)) + 1]

\* C19: for every segmentLow and sieve size, also sizes beyond the end of
\* the table, preSieveSmall leaves sieve[k] = table[(i + k) mod 1001] for
\* every k, with i = (segmentLow mod 30030) / 30.
SmallIsModular ==
  Applied /\ ~Built =>
    TableIndexed(Copied, (segmentLow % 30030) \div 30)

\* preSieveSmall has written the last byte of the table, two whole tables
\* and nothing more: the sieve size less the tail is a multiple of 1001.
SmallIsModularWitness ==
  /\ Applied
  /\ ~Built
  /\ segmentLow = 30 * (Len(buffer_7_11_13) - 1)
  /\ ArrLen(sieve) = 2 * Len(buffer_7_11_13) + 1
  /\ ByteAt(sieve, 0) = buffer_7_11_13[Len(buffer_7_11_13)]
  /\ ByteAt(sieve, Len(buffer_7_11_13) + 1) = buffer_7_11_13[1]
  /\ ByteAt(sieve, 2 * Len(buffer_7_11_13)) = buffer_7_11_13[Len(buffer_7_11_13)]

\* The AND of the bytes at index idx, taken modulo the size of each buffer,
\* of the buffers i .. 8.
RECURSIVE AndOver(_, _, _)
AndOver(bufs, i, idx) ==
  IF i > Len(bufs) THEN 255
  ELSE ByteAnd(ByteAt(bufs[i], idx % ArrLen(bufs[i])), AndOver(bufs, i + 1, idx))

\* x[k] = AND over the buffers of buffers[i][(first + k) mod len_i], for the
\* indices from .. to of x.
AndIndexed(bufs, x, first, from, to) ==
  \A k \in from..to : ByteAt(x, k) = AndOver(bufs, 1, first + k)

\* The loop heads of preSieveLarge on the sieve of the segment.
SegmentHeads ==
  LargeHeads(Buffers, ArrLen(sieve), 0, LargeCursors(Buffers, segmentLow))

\* At every loop head pos[i] < len_i and pos[i] = (first + offset) mod len_i.
CursorsIndexed(heads, first) ==
  \A h \in 1..Len(heads) : \A i \in 1..Len(buffers_) :
    /\ heads[h].pos[i] < buffers_[i]
    /\ heads[h].pos[i] = (first + heads[h].offset) % buffers_[i]

\* C20: for every segmentLow and sieve size, also sizes beyond every buffer,
\* preSieveLarge leaves sieve[k] = AND over the eight buffers of
\* buffers[i][(segmentLow / 30 + k) mod len_i] for every k, and at every loop
\* head pos[i] < len_i and pos[i] = (segmentLow / 30 + offset) mod len_i.
LargeIsModular ==
  Applied /\ Built =>
    LET n == Min(Len(Corrections(segmentLow)), ArrLen(sieve))
        first == segmentLow \div 30
    IN /\ AndIndexed(Buffers, sieve, first, n, ArrLen(sieve) - 1)
       /\ n > 0 => AndIndexed(Buffers, Copied, first, 0, n - 1)
       /\ CursorsIndexed(SegmentHeads, first)

\* preSieveLarge has written a sieve longer than every buffer, from the last
\* byte of the seventh buffer on: the loop has run more than eight times.
LargeIsModularWitness ==
  /\ Applied
  /\ Built
  /\ segmentLow = 30 * (buffers_[7] - 1)
  /\ \A i \in 1..Len(buffers_) : ArrLen(sieve) > buffers_[i]
  /\ Len(SegmentHeads) > Len(buffers_)

(***************************************************************************)
(* Further properties of EratSmall::crossOff, checked under SpecErat.      *)
(***************************************************************************)
\* The records prs in the order perm.
Permuted(prs, perm) == [i \in 1..Len(prs) |-> prs[perm[i]]]

\* crossOff with the records in the order perm yields the sieve of r and,
\* for every record, the state it has in r.
SameAsPermuted(r, perm) ==
  LET q == CrossOffOuter(Permuted(primes_, perm), sieve, ArrLen(sieve),
                         l1CacheSize_)
  IN /\ q.sieve = r.sieve
     /\ \A i \in 1..Len(primes_) : q.primes[i] = r.primes[perm[i]]

\* crossOff with record i stored a second time yields the sieve of r.
SameAsTwice(r, i) ==
  CrossOffOuter(Append(primes_, primes_[i]), sieve, ArrLen(sieve),
                l1CacheSize_).sieve = r.sieve

\* C15: for the stored primes and the sieve of every segment about to be
\* crossed off, crossOff with the records in any order yields the same sieve
\* bytes and the same (multipleIndex, wheelIndex) of every prime, and with a
\* record stored twice the same sieve bytes.
OrderIrrelevant ==
  (pc = "ready" /\ CrossOffEnds(ArrLen(sieve), l1CacheSize_)) =>
    LET r == CrossOffOuter(primes_, sieve, ArrLen(sieve), l1CacheSize_)
    IN /\ \A perm \in Permutations(1..Len(primes_)) : SameAsPermuted(r, perm)
       /\ \A i \in 1..Len(primes_) : SameAsTwice(r, i)

\* The second segment is about to be crossed off with 7 and 11 stored, in
\* blocks smaller than the sieve; both strike the byte that holds 77.
OrderIrrelevantWitness ==
  /\ pc = "ready"
  /\ segments = 2
  /\ StoredPrimes = {7, 11}
  /\ ArrLen(sieve) > 31
  /\ U64Lt(l1CacheSize_, U64(ArrLen(sieve)))
  /\ l1CacheSize_ # U64(0)

\* The number of cleared bits of the bytes b, b + 1, ... of the array a.
RECURSIVE ClearedFrom(_, _)
ClearedFrom(a, b) ==
  IF b >= ArrLen(a) THEN 0
  ELSE Cardinality({k \in 0..7 : ~BitSet(ByteAt(a, b), k)}) + ClearedFrom(a, b + 1)

\* The number of strikes that crossOff makes for the record rec in a sieve
\* of size bytes: the bits it clears in a sieve that held 0xff everywhere.
StrikesOf(rec, size) ==
  ClearedFrom(CrossOffOuter(<<rec>>, FilledArray(size), size, l1CacheSize_).sieve, 0)

\* The state s after n single strikes, each moving s to
\* 8 * (s >> 3) + ((s + 1) mod 8).
AfterStrikes(s, n) == 8 * (s \div 8) + ((s + n) % 8)

\* C16: a crossOff call leaves every prime with a wheelIndex in 0..63 of the
\* class it had, advanced within the class by one phase per strike made, so
\* that the saved wheelIndex is the phase of the first strike not yet made;
\* in every segment.
WheelIndexAdvances ==
  [][(pc = "ready" /\ pc' = "crossed") =>
       /\ Len(primes_') = Len(primes_)
       /\ \A i \in 1..Len(primes_) :
            /\ primes_'[i].wheelIndex \in 0..63
            /\ primes_'[i].wheelIndex \div 8 = primes_[i].wheelIndex \div 8
            /\ primes_'[i].sievingPrime = primes_[i].sievingPrime
            /\ primes_'[i].wheelIndex
                 = AfterStrikes(primes_[i].wheelIndex,
                                StrikesOf(primes_[i], ArrLen(sieve)))]_vars

\* The second segment has been crossed off with 7 and 11 stored, and 11 (of
\* the second class) has been saved within a revolution.
WheelIndexWitness ==
  /\ pc = "crossed"
  /\ segments = 2
  /\ StoredPrimes = {7, 11}
  /\ ArrLen(sieve) > 31
  /\ \E i \in 1..Len(primes_) :
       primes_[i].wheelIndex \div 8 = 1 /\ primes_[i].wheelIndex % 8 # 0

MaxSievingPrime == 1

\* The blocks [a, b) of a sieve of n bytes that crossOff is run on: the
\* whole sieve, its halves, an inner block, and empty blocks.
BlocksOf(n) ==
  {<<0, n>>, <<0, 0>>, <<n, n>>, <<0, n \div 2>>, <<n \div 2, n>>,
   <<Min(1, n), Max(Min(1, n), n - 1)>>}

\* Prime states of every wheelIndex, with multipleIndex inside a block of
\* len bytes, at its end and beyond it (a sievingPrime of 0 in the class of
\* residue 1 would stand for 1, which is no prime).
AnyRecords(len) ==
  {rec \in {SievingPrime(sp, mi, w) :
              sp \in 0..MaxSievingPrime, w \in 0..63,
              mi \in {0, 1, len, len + 2}} : PrimeOf(rec) > 1}

\* For the record rec on the block blk, loopEnd is not below the start of
\* the block and every byte accessed lies inside the block.
InsideBlock(blk, rec) ==
  /\ LoopEnd(blk[1], blk[2], MaxLoopDist(rec.sievingPrime)) >= blk[1]
  /\ AccessesOf(blk[1], blk[2], rec) \subseteq blk[1]..(blk[2] - 1)

\* C17: on every block of the sieve of a segment, also blocks shorter than a
\* revolution and empty ones, the inner crossOff accesses only bytes inside
\* the block and loopEnd is not below its start: for the stored primes, and
\* for prime states of every wheelIndex in 0..63 and multipleIndex inside,
\* at the end of and beyond the block.
CrossOffInBounds ==
  pc = "ready" =>
    \A blk \in BlocksOf(ArrLen(sieve)) :
      /\ \A i \in 1..Len(primes_) : InsideBlock(blk, primes_[i])
      /\ \A rec \in AnyRecords(blk[2] - blk[1]) : InsideBlock(blk, rec)

\* A sieve longer than a revolution of 31 is about to be crossed off: for 31
\* at the start of the sieve the unrolled loop runs and accesses the byte
\* sievingPrime * 28 + 1 from it.
CrossOffInBoundsWitness ==
  /\ pc = "ready"
  /\ ArrLen(sieve) > MaxLoopDist(1)
  /\ 29 \in AccessesOf(0, ArrLen(sieve), SievingPrime(1, 0, 56))
  /\ LoopEnd(0, ArrLen(sieve), MaxLoopDist(1)) > 0

(***************************************************************************)
(* The unrolled loop body against the single strikes of the same class.    *)
(***************************************************************************)
MaxUnrollPrime == 12

\* The eight single strikes of class c from a pointer at p, made by the
\* switch itself: entered at case label 8 * c with loopEnd = p, so that the
\* unrolled loop is skipped, and with sieveEnd just past the byte of the
\* eighth strike, so that CHECK_FINISHED leaves after the eighth.
SteppedEnd(p, sp, c) == p + sp * UnrollMul[8 * c + 8] + UnrollAdd[8 * c + 8] + 1

\* The switch run for the eight single strikes of class c from p.
SteppedBody(a, p, sp, c) == Strikes(a, SteppedEnd(p, sp, c), p, sp, 8 * c, p)

\* The (byte offset, bit) pairs of the eight statements of the unrolled body.
UnrolledPairs(sp, c) ==
  { <<sp * UnrollMul[8 * c + j + 1] + UnrollAdd[8 * c + j + 1],
      UnrollBit[8 * c + j + 1]>> : j \in 0..7 }

\* The (byte offset, bit) pairs of n single strikes from case label w, the
\* pointer off bytes past where it began, and the label and offset after them.
RECURSIVE SteppedPairs(_, _, _, _)
SteppedPairs(sp, w, off, n) ==
  IF n = 0 THEN [pairs |-> {}, off |-> off, label |-> w]
  ELSE LET rest == SteppedPairs(sp, NextLabel(w),
                                off + sp * StepMul[w + 1] + StepAdd[w + 1], n - 1)
       IN [rest EXCEPT !.pairs = @ \cup {<<off, StrikeBit[w + 1]>>}]

\* C21: for each of the eight classes and every sievingPrime, one iteration
\* of the unrolled body clears the same (byte offset, bit) pairs and advances
\* the pointer by the same amount, 30 * sievingPrime + the residue of the
\* class, as the eight single strikes of phases 0..7 in order, which lead
\* back to phase 0; for class 7 the pairs are those of multipliers
\* 0, 6, 10, 12, 16, 18, 22, 28 with adjustments 0, 1, 2, 2, 3, 4, 5, 6 and
\* bits 0, 4, 3, 7, 6, 2, 1, 5.  On the sieve of the state, for each stored
\* prime and each pointer below loopEnd, both leave the same bytes.
UnrolledEqualsStepped ==
  /\ \A c \in 0..7, sp \in 0..MaxUnrollPrime :
       LET stepped == SteppedPairs(sp, 8 * c, 0, 8)
       IN /\ stepped.pairs = UnrolledPairs(sp, c)
          /\ Cardinality(stepped.pairs) = 8
          /\ stepped.off = Revolution(sp, c)
          /\ stepped.off = 30 * sp + (BitValue[c + 1] % 30)
          /\ stepped.label = 8 * c
  /\ \A sp \in 0..MaxUnrollPrime :
       UnrolledPairs(sp, 0) =
         { <<sp * 0 + 0, 0>>, <<sp * 6 + 1, 4>>, <<sp * 10 + 2, 3>>,
           <<sp * 12 + 2, 7>>, <<sp * 16 + 3, 6>>, <<sp * 18 + 4, 2>>,
           <<sp * 22 + 5, 1>>, <<sp * 28 + 6, 5>> }
  /\ \A i \in 1..Len(primes_) :
       LET sp == primes_[i].sievingPrime
           c == (primes_[i].wheelIndex % 64) \div 8
       IN \A p \in 0..(ArrLen(sieve) - MaxLoopDist(sp) - 1) :
            LET stepped == SteppedBody(sieve, p, sp, c)
            IN /\ stepped.sieve = UnrolledBody(sieve, p, sp, c)
               /\ stepped.multipleIndex + SteppedEnd(p, sp, c) - p
                    = Revolution(sp, c)
               /\ stepped.wheelIndex = 8 * c

\* A pass of crossOff has run over a sieve long enough for the unrolled loop,
\* with a stored prime of the last class (31, sievingPrime 1) and one of the
\* class before it (29, sievingPrime 0).
UnrolledEqualsSteppedWitness ==
  /\ pc = "crossed"
  /\ Len(primes_) = 2
  /\ primes_[1].sievingPrime = 0 /\ primes_[1].wheelIndex \div 8 = 6
  /\ primes_[2].sievingPrime = 1 /\ primes_[2].wheelIndex \div 8 = 7
  /\ ArrLen(sieve) > MaxLoopDist(1)
  /\ sieve # FilledArray(ArrLen(sieve))

(***************************************************************************)
(* The while loop of preSieveLarge, checked under SpecPreLong.             *)
(***************************************************************************)
\* Every iteration copies at least one byte and no more than any buffer has
\* left, and the next head has the offset advanced by bytesToCopy and each
\* cursor advanced by it, back at 0 exactly when it has reached the size of
\* its buffer.
HeadsAdvance(heads) ==
  \A h \in 1..(Len(heads) - 1) :
    /\ heads[h].body
    /\ heads[h].bytesToCopy >= 1
    /\ heads[h + 1].offset = heads[h].offset + heads[h].bytesToCopy
    /\ heads[h + 1].offset > heads[h].offset
    /\ \A i \in 1..Len(buffers_) :
         /\ heads[h].pos[i] < buffers_[i]
         /\ heads[h].pos[i] + heads[h].bytesToCopy <= buffers_[i]
         /\ heads[h + 1].pos[i] =
              IF heads[h].pos[i] + heads[h].bytesToCopy = buffers_[i] THEN 0
              ELSE heads[h].pos[i] + heads[h].bytesToCopy

\* The number of calls of andBuffers that write sieve[k].
WritesOf(heads, k) ==
  Cardinality({h \in 1..Len(heads) :
                 /\ heads[h].body
                 /\ heads[h].offset <= k
                 /\ k < heads[h].offset + heads[h].bytesToCopy})

\* C22: the loop of preSieveLarge ends: every iteration has bytesToCopy >= 1,
\* the offset strictly increases, every cursor that reaches the size of its
\* buffer goes back to 0, the loop leaves with offset = sieve.size() exactly,
\* and each byte of the sieve has been written exactly once.
LargeLoopEnds ==
  Applied /\ Built =>
    LET heads == SegmentHeads
    IN /\ heads[1].offset = 0
       /\ HeadsAdvance(heads)
       /\ ~heads[Len(heads)].body
       /\ heads[Len(heads)].offset = ArrLen(sieve)
       /\ \A k \in 0..(ArrLen(sieve) - 1) : WritesOf(heads, k) = 1

\* The loop has run several times on one sieve: an iteration ended with a
\* cursor back at 0 and another cursor advanced without wrapping.
LargeLoopEndsWitness ==
  /\ Applied
  /\ Built
  /\ LET heads == SegmentHeads
     IN /\ Len(heads) > 3
        /\ \E i, j \in 1..Len(buffers_) :
             /\ heads[2].pos[i] = 0
             /\ heads[2].pos[j] = heads[1].pos[j] + heads[1].bytesToCopy
             /\ heads[2].pos[j] > 0

(***************************************************************************)
(* The blocks of the outer crossOff, checked under SpecErat.               *)
(***************************************************************************)
\* The blocks [i, end) on which the loop of crossOff(sieve, sieveSize) calls
\* the inner crossOff, from i on: the first n of them.
RECURSIVE OuterBlocks(_, _, _, _)
OuterBlocks(sieveSize, l1CacheSize, i, n) ==
  IF n = 0 \/ ~U64Lt(i, U64(sieveSize)) THEN <<>>
  ELSE LET end == U64Min(U64Add(i, l1CacheSize), U64(sieveSize))
       IN <<<<U64ToNat(i), U64ToNat(end)>>>>
            \o OuterBlocks(sieveSize, l1CacheSize, U64Add(i, l1CacheSize), n - 1)

\* The blocks are consecutive from 0, none is empty or longer than
\* l1CacheSize bytes, and the last ends at sieveSize: their union is
\* [0, sieveSize) and no two of them overlap.
BlocksTile(blocks, sieveSize, l1CacheSize) ==
  /\ sieveSize = 0 <=> blocks = <<>>
  /\ blocks # <<>> =>
       /\ blocks[1][1] = 0
       /\ blocks[Len(blocks)][2] = sieveSize
  /\ \A k \in 1..Len(blocks) :
       /\ blocks[k][1] < blocks[k][2]
       /\ ~U64Lt(l1CacheSize, U64(blocks[k][2] - blocks[k][1]))
       /\ k < Len(blocks) => blocks[k + 1][1] = blocks[k][2]

\* C23: for every configuration that EratSmall::init accepts (l1CacheSize = 0
\* with maxPrime = 0 included) and every sieveSize, crossOff(sieve, sieveSize)
\* returns, having called the inner crossOff on consecutive, disjoint blocks
\* of at most l1CacheSize bytes whose union is [0, sieveSize).
CrossOffOuterTiles ==
  last.op = "crossOff" =>
    /\ pc = "crossed"
    /\ BlocksTile(OuterBlocks(ArrLen(sieve), l1CacheSize_, U64(0),
                              ArrLen(sieve) + 1),
                  ArrLen(sieve), l1CacheSize_)

\* What the code satisfies: with l1CacheSize_ > 0, or an empty sieve, the
\* call returns and its blocks are as C23 says.
CrossOffOuterTilesFromOne ==
  (last.op = "crossOff" /\ (l1CacheSize_ # U64(0) \/ ArrLen(sieve) = 0)) =>
    /\ pc = "crossed"
    /\ BlocksTile(OuterBlocks(ArrLen(sieve), l1CacheSize_, U64(0),
                              ArrLen(sieve) + 1),
                  ArrLen(sieve), l1CacheSize_)

(***************************************************************************)
(* PreSieve::initBuffers and its assertions, checked under SpecPre.        *)
(***************************************************************************)
\* uint64_t start = product, the product being 30 times the buffer's primes.
StartOf(i) == ProductFrom(bufferPrimes[i], 1, 30)

\* uint64_t maxPrime = bufferPrimes[i].back();
BackOf(i) == bufferPrimes[i][Len(bufferPrimes[i])]

\* assert(maxPrime == *std::max_element(bufferPrimes[i].begin(), ...end()));
AssertBackIsMax(i) ==
  \A j \in 1..Len(bufferPrimes[i]) : bufferPrimes[i][j] <= BackOf(i)

\* assert(start >= maxPrime * maxPrime);
AssertStartAtLeastSquare(i) == StartOf(i) >= BackOf(i) * BackOf(i)

\* assert(prime <= maxPrime_) of storeSievingPrime, for each prime that
\* initBuffers adds after eratSmall.init(stop, buffers_[i].size(), maxPrime).
AssertStoredAtMostMax(i) ==
  \A j \in 1..Len(bufferPrimes[i]) :
    ~U64Lt(U64(BackOf(i)), U64(bufferPrimes[i][j]))

\* C24: building the buffers never fails: each of the eight buffers gets the
\* product of its primes as its length, the last prime listed is the largest
\* of its set, start = 30 * product >= maxPrime^2, and maxPrime <= 3 * (the
\* length of the buffer), so that the nested EratSmall::init does not throw,
\* PreSieve::init surfaces no error and no assertion fires.
BuildNeverFails ==
  (last.op = "init" /\ Built) =>
    /\ ~last.threw
    /\ ~InitBuffers.threw
    /\ \A i \in 1..Len(bufferPrimes) :
         /\ buffers_[i] = ProductFrom(bufferPrimes[i], 1, 1)
         /\ ArrLen(Buffers[i]) = buffers_[i]
         /\ AssertBackIsMax(i)
         /\ StartOf(i) = 30 * buffers_[i]
         /\ AssertStartAtLeastSquare(i)
         /\ ~ExceedsTriple(U64(BackOf(i)), U64(buffers_[i]))
         /\ ~EratInitThrows(U64(buffers_[i]), U64(BackOf(i)))
         /\ AssertStoredAtMostMax(i)

\* A single call of init has reached the threshold and built all eight
\* buffers, the last of 83 * 89 bytes.
BuildNeverFailsWitness ==
  /\ last.op = "init"
  /\ inits = 1
  /\ Built
  /\ buffers_[Len(buffers_)] = 83 * 89
  /\ preMaxPrime_ = 97

(***************************************************************************)
(* PreSieve::init with arguments of the full width of uint64_t.            *)
(* Natural numbers below 2^96 are held as BigLen limbs of 16 bits, least   *)
(* significant first; a double that holds an integer is held as that       *)
(* integer.                                                                *)
(***************************************************************************)
BigLen == 6

\* A uint64_t as a natural number.
Big(x) == x \o <<0, 0>>

\* (uint64_t) of a natural number below 2^64.
BigLow(x) == <<x[1], x[2], x[3], x[4]>>

BigZero == [i \in 1..BigLen |-> 0]

BigOne == [i \in 1..BigLen |-> IF i = 1 THEN 1 ELSE 0]

BigLt(x, y) ==
  \E i \in 1..BigLen : x[i] < y[i] /\ \A j \in (i + 1)..BigLen : x[j] = y[j]

\* The limbs of the number whose limb i is s[i] before carries are passed on.
RECURSIVE Carried(_, _, _)
Carried(s, i, carry) ==
  IF i > BigLen THEN <<>>
  ELSE <<(s[i] + carry) % LimbBase>>
         \o Carried(s, i + 1, (s[i] + carry) \div LimbBase)

BigAdd(x, y) ==
  Only({ Carried([i \in 1..BigLen |-> a[i] + b[i]], 1, 0) :
           a \in {x}, b \in {y} })

\* x - y for x >= y.
BigSub(x, y) ==
  Only({ Carried([i \in 1..BigLen |-> a[i] + (LimbBase - 1 - b[i])], 1, 1) :
           a \in {x}, b \in {y} })

\* x * k for k < 2^15.
BigMulSmall(x, k) ==
  Only({ Carried([i \in 1..BigLen |-> a[i] * m], 1, 0) : a \in {x}, m \in {k} })

\* x * 2^(16 * n)
BigShiftLimbs(x, n) ==
  Only({ [i \in 1..BigLen |-> IF i > m THEN a[i - m] ELSE 0] :
           a \in {x}, m \in {n} })

\* x * (limbs j .. BigLen of y), for a product below 2^96.
RECURSIVE BigMulFrom(_, _, _)
BigMulFrom(x, y, j) ==
  IF j > BigLen THEN BigZero
  ELSE BigAdd(BigShiftLimbs(BigAdd(BigMulSmall(BigMulSmall(x, y[j] \div 2^8), 2^8),
                                   BigMulSmall(x, y[j] % 2^8)),
                            j - 1),
              BigMulFrom(x, y, j + 1))

BigMul(x, y) == Only({ BigMulFrom(a, b, 1) : a \in {x}, b \in {y} })

\* 2^n
BigPow2(n) ==
  [i \in 1..BigLen |-> IF i = (n \div 16) + 1 THEN 2^(n % 16) ELSE 0]

\* The number of bits of x: 0 for 0, else 1 + floor(log2(x)).
BitLen(x) ==
  IF x = BigZero THEN 0
  ELSE LET top == CHOOSE i \in 1..BigLen :
                    x[i] # 0 /\ \A j \in (i + 1)..BigLen : x[j] = 0
           bits == CHOOSE n \in 1..16 : 2^(n - 1) <= x[top] /\ x[top] < 2^n
       IN 16 * (top - 1) + bits

\* x \div 2^s for 0 < s < 16.
BigShr(x, s) ==
  [i \in 1..BigLen |->
     (x[i] \div 2^s) + (IF i < BigLen THEN (x[i + 1] % 2^s) * 2^(16 - s) ELSE 0)]

\* x rounded to a multiple of 2^s, to the even one of two nearest.
RoundedAt(x, s) ==
  LET q == BigShr(x, s)
      rem == x[1] % 2^s
      half == 2^(s - 1)
      up == rem > half \/ (rem = half /\ q[1] % 2 = 1)
  IN IF s <= 0 THEN x
     ELSE BigMulSmall(IF up THEN BigAdd(q, BigOne) ELSE q, 2^s)

\* The conversion of a uint64_t to double: the nearest number with 53
\* significant bits, the even one of two nearest.
ToDouble(x) == Only({ RoundedAt(v, BitLen(v) - 53) : v \in {x} })

\* The bits hi down to lo of floor(sqrt(d)), given its bits above hi in r: a
\* bit is set iff the square with it set does not exceed d.
RECURSIVE SqrtBits(_, _, _, _)
SqrtBits(d, r, hi, lo) ==
  IF hi < lo THEN r
  ELSE Only({ Only({ SqrtBits(d, next, hi - 1, lo) :
                       next \in {IF BigLt(d, BigMul(cand, cand)) THEN r
                                 ELSE cand} }) :
                cand \in {BigAdd(r, BigPow2(hi))} })

\* floor(sqrt(d)) for d <= 2^64: the bits 32 .. 0, in three runs.
IntSqrt(d) ==
  Only({ Only({ Only({ SqrtBits(v, mid, 10, 0) :
                         mid \in {SqrtBits(v, top, 21, 11)} }) :
                  top \in {SqrtBits(v, BigZero, 32, 22)} }) :
           v \in {d} })

\* (uint64_t) std::sqrt(d) for a double d that holds an integer <= 2^64: the
\* root is rounded to the nearest double and then truncated.  With
\* k = floor(sqrt(d)), the doubles just below k + 1 are 2^(BitLen(k) - 53)
\* apart, so the root is rounded up to k + 1 iff
\* sqrt(d) > k + 1 - 2^(BitLen(k) - 54), that is, iff
\* ((k + 1)^2 - d) * 2^(53 - BitLen(k)) < k + 1.
SqrtOfDouble(d) ==
  Only({ Only({ Only({ IF BigLt(BigMul(BigSub(BigMul(k1, k1), v),
                                       BigPow2(53 - BitLen(k))), k1)
                       THEN k1 ELSE k :
                         k1 \in {BigAdd(k, BigOne)} }) :
                  k \in {IntSqrt(v)} }) :
           v \in {d} })

\* uint64_t sqrtStop = (uint64_t) std::sqrt(stop);
SqrtStop(stop) == BigLow(SqrtOfDouble(ToDouble(Big(stop))))

U64Max(x, y) == IF U64Lt(x, y) THEN y ELSE x

\* x - y for x >= y.
U64Sub(x, y) == BigLow(BigSub(Big(x), Big(y)))

\* dist of PreSieve::init, in uint64_t:
\* dist = std::max(std::max(start, stop) - start, sqrtStop)
Dist64(start, stop) ==
  Only({ U64Max(U64Sub(U64Max(a, b), a), SqrtStop(b)) :
           a \in {start}, b \in {stop} })

\* 2^64 - 1, 2^64 - 2 and 2^63 + 5 as uint64_t.
Pow64Minus1 == <<LimbBase - 1, LimbBase - 1, LimbBase - 1, LimbBase - 1>>
Pow64Minus2 == <<LimbBase - 2, LimbBase - 1, LimbBase - 1, LimbBase - 1>>
Pow63Plus5 == <<5, 0, 0, 2^15>>

\* The (start, stop) beyond 2^31 offered to PreSieve::init: the longest
\* range, a range with stop < start at the top of uint64_t, a short range in
\* the middle, and the upper half.
WideRanges ==
  { <<U64(0), Pow64Minus1>>, <<Pow64Minus1, Pow64Minus2>>, <<Pow63, Pow63Plus5>>,
    <<Pow63, Pow64Minus1>> }

\* PreSieve::init(start, stop) with arguments of the full width of uint64_t,
\* called between segments.
PreSieveInit64(start, stop) ==
  /\ pc \in {"new", "inited"}
  /\ inits < MaxInits
  /\ inits' = inits + 1
  /\ IF buffers_[1] # 0
     THEN /\ UNCHANGED <<buffers_, totalDist_, preMaxPrime_>>
          /\ last' = Call("init", <<start, stop>>, FALSE, FALSE)
     ELSE \E total \in {U64Add(totalDist_, Dist64(start, stop))} :
            /\ totalDist_' = total
            /\ IF BelowThreshold(total)
               THEN /\ UNCHANGED <<buffers_, preMaxPrime_>>
                    /\ last' = Call("init", <<start, stop>>, FALSE, FALSE)
               ELSE /\ buffers_' = [i \in 1..Len(buffers_) |->
                                      ArrLen(InitBuffers.buffers[i])]
                    /\ preMaxPrime_' = Max(preMaxPrime_, InitBuffers.maxPrime)
                    /\ last' = Call("init", <<start, stop>>, InitBuffers.threw,
                                    FALSE)
  /\ sieve' = <<>>
  /\ segmentLow' = 0
  /\ pc' = "inited"
  /\ UNCHANGED <<enabled_, maxPrime_, l1CacheSize_, primes_, segments>>

\* The (segmentLow, sieve size) that the driver of the wide calls offers to
\* preSieve.
WideSegments == {<<0, 0>>, <<0, MaxLen>>, <<120, MaxLen>>}

NextPreWide ==
  \/ \E r \in InitRanges : PreSieveInit(r[1], r[2])
  \/ \E r \in WideRanges : PreSieveInit64(r[1], r[2])
  \/ \E s \in WideSegments, stale \in StaleBytes : Apply(s[1], s[2], stale)
  \/ EndSegment

SpecPreWide == Init /\ [][NextPreWide]_vars

(***************************************************************************)
(* totalDist_ across calls of init, checked under SpecPreWide.             *)
(***************************************************************************)
\* A step that is a call of init.
InitStep == inits' = inits + 1

\* C25: while the buffers are not built totalDist_ never decreases across a
\* call of init, whatever uint64_t arguments it gets (stop < start included):
\* the addition does not wrap around 2^64, and a session whose cumulative
\* distance has reached 20 * buffersDist has its buffers built.
TotalDistNeverWraps ==
  [][(InitStep /\ ~Built) =>
       /\ ~U64Lt(totalDist_', totalDist_)
       /\ (U64Lt(totalDist_', totalDist_) \/ ~BelowThreshold(totalDist_'))
            => Built']_vars

\* What the code satisfies: totalDist_ decreases only in a call whose dist is
\* within 20 * buffersDist of 2^64, and the buffers are built iff totalDist_
\* is at least 20 * buffersDist after the call.
TotalDistWrapsOnlyAtTop ==
  [][(InitStep /\ ~Built) =>
       /\ U64Lt(totalDist_', totalDist_) =>
            LET dist == U64Sub(totalDist_', totalDist_)
            IN U64Lt(U64Add(dist, U64(buffersDist * 20)), dist)
       /\ Built' <=> ~BelowThreshold(totalDist_')]_vars

====
